---------------------------- MODULE Spec2Model ----------------------------
(***************************************************************************)
(* Model of the ship workflow engine: the pure transition function         *)
(* (src/transitions.ts), the effect executor (effects.ts, kept in          *)
(* src/unnamed/part_000) acting on a small model of the git / gh world,    *)
(* and the run loop and terminal rendering (index.ts, kept at the end of   *)
(* src/transitions.ts).                                                    *)
(*                                                                         *)
(* Conventions.  A string built by a template or by join is a sequence of  *)
(* tokens (<<"PR open: ", url>>), so that "contains" and "joined in order" *)
(* are decidable.  File paths are the integers 1..MaxFiles (their numeric  *)
(* order is the order git prints them in).  A diff is the set of paths it  *)
(* touches; 0 stands for the content of commits made before the run.       *)
(***************************************************************************)
EXTENDS Integers, Sequences, FiniteSets, TLC

\* ---------------------------------------------------------------- bounds
MaxFiles == 2
MaxGroups == 2
MaxAhead == 1
MaxBehind == 1
MaxCommitMore == 1
MaxArgs == 3

Files == 1..MaxFiles

\* ------------------------------------------------------------ data types
Null == [kind |-> "null"]

StateKinds ==
  { "preflight",
    "fast_path_logging", "fast_path_pushing", "fast_path_checking_pr",
    "fast_path_generating_pr", "fast_path_confirming_pr", "fast_path_creating_pr",
    "fast_path_confirming_merge", "fast_path_merging",
    "collecting_files", "picking_files", "staging_files", "getting_diff",
    "generating_details", "confirming_branch", "confirming_commit", "editing_commit",
    "committing", "post_commit_checking_pr", "post_commit", "pushing", "checking_pr",
    "confirming_pr", "stack_committing", "creating_pr", "confirming_merge", "merging",
    "checking_remote", "confirming_pull", "pulling",
    "done", "cancelled", "error", "nothing_to_ship", "merge_conflict" }

TerminalKinds == {"done", "cancelled", "error", "nothing_to_ship", "merge_conflict"}

EventKinds ==
  { "tools_ok", "commit_log_ready", "push_done", "pr_exists", "no_pr", "diff_ready",
    "pr_details_generated", "pr_details_failed", "confirm_pr", "pr_created",
    "confirm_merge", "merge_done", "files_collected", "files_picked", "files_staged",
    "details_generated", "details_failed", "branch_confirmed", "commit_action",
    "commit_edited", "commit_done", "pr_skip", "merge_skip", "user_cancelled",
    "remote_status", "confirm_pull", "pull_done", "pull_conflict",
    "post_commit_choice", "stack_plan_generated", "stack_commit_done" }

isTerminal(state) ==
  \/ state.kind = "done"
  \/ state.kind = "cancelled"
  \/ state.kind = "error"
  \/ state.kind = "nothing_to_ship"
  \/ state.kind = "merge_conflict"

\* A Transition value: the next state and the ordered effect list.
Transition(s, effs) == [state |-> s, effects |-> effs]

\* ------------------------------------------------------ string helpers
\* seq.join(sep) over token sequences.
RECURSIVE Join(_, _)
Join(parts, sep) ==
  IF Len(parts) = 0 THEN << >>
  ELSE IF Len(parts) = 1 THEN parts[1]
  ELSE parts[1] \o sep \o Join(Tail(parts), sep)

\* ------------------------------------------------- transition function
invalid(state, event) ==
  Transition([kind |-> "error",
              message |-> <<"Unexpected event \"", event.kind,
                            "\" in state \"", state.kind, "\"">>],
             << >>)

\* continueAfterPullCheck that takes staged files for the only local changes.
continueAfterPullCheck_mut(git) ==
  IF ~git.hasChanges /\ git.unpushedCount = 0 /\ git.unmergedCount = 0
  THEN Transition([kind |-> "nothing_to_ship"], << >>)
  ELSE IF ~git.hasStaged /\ (git.unpushedCount > 0 \/ git.unmergedCount > 0)
  THEN Transition([kind |-> "fast_path_logging", git |-> git],
                  <<[kind |-> "show_commit_log", git |-> git]>>)
  ELSE Transition([kind |-> "collecting_files", git |-> git],
                  <<[kind |-> "collect_files", git |-> git]>>)

continueAfterPullCheck(git) ==
  IF ~git.hasChanges /\ git.unpushedCount = 0 /\ git.unmergedCount = 0
  THEN Transition([kind |-> "nothing_to_ship"], << >>)
  ELSE IF ~git.hasChanges /\ (git.unpushedCount > 0 \/ git.unmergedCount > 0)
  THEN Transition([kind |-> "fast_path_logging", git |-> git],
                  <<[kind |-> "show_commit_log", git |-> git]>>)
  ELSE Transition([kind |-> "collecting_files", git |-> git],
                  <<[kind |-> "collect_files", git |-> git]>>)

\* plan.groups[i] with JavaScript's out-of-range read (0-based index i).
Undefined == [kind |-> "undefined"]
GroupAt(plan, i) ==
  IF i + 1 \in DOMAIN plan.groups THEN plan.groups[i + 1] ELSE Undefined

startStackCommitting(git, plan) ==
  Transition([kind |-> "stack_committing", git |-> git, plan |-> plan, currentIndex |-> 0],
             <<[kind |-> "execute_stack_commit", group |-> GroupAt(plan, 0),
                branchName |-> plan.branchName, isFirst |-> TRUE,
                onMain |-> git.onMain, index |-> 0]>>)

\* preflight that looks at the upstream before it looks for work.
case_preflight_mut(state, event) ==
  IF event.kind # "tools_ok" THEN invalid(state, event)
  ELSE LET git == event.git IN
    IF ~git.onMain /\ git.hasUpstream
    THEN Transition([kind |-> "checking_remote", git |-> git],
                    <<[kind |-> "check_remote_status", branch |-> git.currentBranch]>>)
    ELSE continueAfterPullCheck(git)

case_preflight(state, event) ==
  IF event.kind # "tools_ok" THEN invalid(state, event)
  ELSE LET git == event.git IN
    IF ~git.hasChanges /\ git.unpushedCount = 0 /\ git.unmergedCount = 0
    THEN Transition([kind |-> "nothing_to_ship"], << >>)
    ELSE IF ~git.onMain /\ git.hasUpstream
    THEN Transition([kind |-> "checking_remote", git |-> git],
                    <<[kind |-> "check_remote_status", branch |-> git.currentBranch]>>)
    ELSE continueAfterPullCheck(git)

\* checking_remote that asks to pull whatever the count is.
case_checking_remote_mut(state, event) ==
  IF event.kind # "remote_status" THEN invalid(state, event)
  ELSE IF event.behind >= 0
  THEN Transition([kind |-> "confirming_pull", git |-> state.git, behind |-> event.behind],
                  <<[kind |-> "prompt_confirm_pull", behind |-> event.behind]>>)
  ELSE continueAfterPullCheck(state.git)

case_checking_remote(state, event) ==
  IF event.kind # "remote_status" THEN invalid(state, event)
  ELSE IF event.behind > 0
  THEN Transition([kind |-> "confirming_pull", git |-> state.git, behind |-> event.behind],
                  <<[kind |-> "prompt_confirm_pull", behind |-> event.behind]>>)
  ELSE continueAfterPullCheck(state.git)

\* confirming_pull that starts over when the pull is declined.
case_confirming_pull_mut(state, event) ==
  IF event.kind # "confirm_pull" THEN invalid(state, event)
  ELSE IF event.accepted
  THEN Transition([kind |-> "pulling", git |-> state.git],
                  <<[kind |-> "pull_remote", branch |-> state.git.currentBranch]>>)
  ELSE Transition([kind |-> "checking_remote", git |-> state.git],
                  <<[kind |-> "check_remote_status", branch |-> state.git.currentBranch]>>)

case_confirming_pull(state, event) ==
  IF event.kind # "confirm_pull" THEN invalid(state, event)
  ELSE IF event.accepted
  THEN Transition([kind |-> "pulling", git |-> state.git],
                  <<[kind |-> "pull_remote", branch |-> state.git.currentBranch]>>)
  ELSE continueAfterPullCheck(state.git)

\* pulling that tries the pull again after a conflict.
case_pulling_mut(state, event) ==
  IF event.kind = "pull_done"
  THEN Transition([kind |-> "preflight"], <<[kind |-> "check_tools"]>>)
  ELSE IF event.kind = "pull_conflict"
  THEN Transition([kind |-> "pulling", git |-> state.git],
                  <<[kind |-> "pull_remote", branch |-> state.git.currentBranch]>>)
  ELSE invalid(state, event)

case_pulling(state, event) ==
  IF event.kind = "pull_done"
  THEN Transition([kind |-> "preflight"], <<[kind |-> "check_tools"]>>)
  ELSE IF event.kind = "pull_conflict"
  THEN Transition([kind |-> "merge_conflict", git |-> state.git, message |-> event.message],
                  << >>)
  ELSE invalid(state, event)

\* fast_path_logging that pushes only what is not merged.
case_fast_path_logging_mut(state, event) ==
  IF event.kind # "commit_log_ready" THEN invalid(state, event)
  ELSE LET git == state.git IN
    IF git.unpushedCount > git.unmergedCount
    THEN Transition([kind |-> "fast_path_pushing", git |-> git, commitLog |-> event.commitLog],
                    <<[kind |-> "push_branch", branch |-> git.currentBranch]>>)
    ELSE Transition([kind |-> "fast_path_checking_pr", git |-> git],
                    <<[kind |-> "check_existing_pr", branch |-> git.currentBranch]>>)

case_fast_path_logging(state, event) ==
  IF event.kind # "commit_log_ready" THEN invalid(state, event)
  ELSE LET git == state.git IN
    IF git.unpushedCount > 0
    THEN Transition([kind |-> "fast_path_pushing", git |-> git, commitLog |-> event.commitLog],
                    <<[kind |-> "push_branch", branch |-> git.currentBranch]>>)
    ELSE Transition([kind |-> "fast_path_checking_pr", git |-> git],
                    <<[kind |-> "check_existing_pr", branch |-> git.currentBranch]>>)

case_fast_path_pushing(state, event) ==
  IF event.kind # "push_done" THEN invalid(state, event)
  ELSE Transition([kind |-> "fast_path_checking_pr", git |-> state.git],
                  <<[kind |-> "check_existing_pr", branch |-> state.git.currentBranch]>>)

case_fast_path_checking_pr(state, event) ==
  LET git == state.git IN
  IF event.kind = "pr_exists"
  THEN Transition([kind |-> "fast_path_confirming_merge", git |-> git, prUrl |-> event.prUrl],
                  <<[kind |-> "log_pr_found", prUrl |-> event.prUrl],
                    [kind |-> "prompt_confirm_merge", prUrl |-> event.prUrl]>>)
  ELSE IF event.kind = "no_pr"
  THEN Transition([kind |-> "fast_path_generating_pr", git |-> git, diff |-> {}],
                  <<[kind |-> "get_diff_main"]>>)
  ELSE invalid(state, event)

case_fast_path_generating_pr(state, event) ==
  IF event.kind = "diff_ready"
  THEN Transition([kind |-> "fast_path_generating_pr", git |-> state.git, diff |-> event.diff],
                  <<[kind |-> "generate_pr_details", diff |-> event.diff]>>)
  ELSE IF event.kind = "pr_details_generated"
  THEN Transition([kind |-> "fast_path_confirming_pr", git |-> state.git,
                   prDetails |-> event.prDetails],
                  <<[kind |-> "prompt_confirm_pr", prDetails |-> event.prDetails]>>)
  ELSE IF event.kind = "pr_details_failed" \/ event.kind = "user_cancelled"
  THEN Transition([kind |-> "done", message |-> <<"Branch pushed. Create PR manually.">>],
                  << >>)
  ELSE invalid(state, event)

case_fast_path_confirming_pr(state, event) ==
  IF event.kind # "confirm_pr" THEN invalid(state, event)
  ELSE IF ~event.accepted
  THEN Transition([kind |-> "done", message |-> <<"Branch pushed.">>],
                  <<[kind |-> "log_pr_skip", branchName |-> state.git.currentBranch]>>)
  ELSE Transition([kind |-> "fast_path_creating_pr", git |-> state.git,
                   prDetails |-> state.prDetails],
                  <<[kind |-> "create_pr", branch |-> state.git.currentBranch,
                     prDetails |-> state.prDetails]>>)

\* fast_path_creating_pr that waits on an event it does not know.
case_fast_path_creating_pr_mut(state, event) ==
  IF event.kind # "pr_created" THEN Transition(state, << >>)
  ELSE Transition([kind |-> "fast_path_confirming_merge", git |-> state.git,
                   prUrl |-> event.prUrl],
                  <<[kind |-> "log_pr_created", prUrl |-> event.prUrl],
                    [kind |-> "prompt_confirm_merge", prUrl |-> event.prUrl]>>)

case_fast_path_creating_pr(state, event) ==
  IF event.kind # "pr_created" THEN invalid(state, event)
  ELSE Transition([kind |-> "fast_path_confirming_merge", git |-> state.git,
                   prUrl |-> event.prUrl],
                  <<[kind |-> "log_pr_created", prUrl |-> event.prUrl],
                    [kind |-> "prompt_confirm_merge", prUrl |-> event.prUrl]>>)

\* fast_path_confirming_merge whose declined merge does not name the PR.
case_fast_path_confirming_merge_mut(state, event) ==
  IF event.kind # "confirm_merge" THEN invalid(state, event)
  ELSE IF ~event.accepted
  THEN Transition([kind |-> "done", message |-> <<"PR open: ">>],
                  <<[kind |-> "log_merge_skip", prUrl |-> state.prUrl,
                     branchName |-> state.git.currentBranch, onMain |-> state.git.onMain]>>)
  ELSE Transition([kind |-> "fast_path_merging", git |-> state.git, prUrl |-> state.prUrl],
                  <<[kind |-> "merge_and_cleanup", prUrl |-> state.prUrl,
                     onMain |-> state.git.onMain]>>)

case_fast_path_confirming_merge(state, event) ==
  IF event.kind # "confirm_merge" THEN invalid(state, event)
  ELSE IF ~event.accepted
  THEN Transition([kind |-> "done", message |-> <<"PR open: ">> \o state.prUrl],
                  <<[kind |-> "log_merge_skip", prUrl |-> state.prUrl,
                     branchName |-> state.git.currentBranch, onMain |-> state.git.onMain]>>)
  ELSE Transition([kind |-> "fast_path_merging", git |-> state.git, prUrl |-> state.prUrl],
                  <<[kind |-> "merge_and_cleanup", prUrl |-> state.prUrl,
                     onMain |-> state.git.onMain]>>)

case_fast_path_merging(state, event) ==
  IF event.kind # "merge_done" THEN invalid(state, event)
  ELSE Transition([kind |-> "done", message |-> <<"Shipped! ">> \o event.prUrl], << >>)

\* collecting_files that refreshes hasChanges from the files found.
case_collecting_files_mut(state, event) ==
  IF event.kind # "files_collected" THEN invalid(state, event)
  ELSE Transition([kind |-> "picking_files",
                   git |-> [state.git EXCEPT !.hasChanges = (event.files # << >>)],
                   files |-> event.files],
                  <<[kind |-> "prompt_file_picker", files |-> event.files]>>)

case_collecting_files(state, event) ==
  IF event.kind # "files_collected" THEN invalid(state, event)
  ELSE Transition([kind |-> "picking_files", git |-> state.git, files |-> event.files],
                  <<[kind |-> "prompt_file_picker", files |-> event.files]>>)

case_picking_files(state, event) ==
  IF event.kind = "user_cancelled"
  THEN Transition([kind |-> "cancelled", message |-> <<"Cancelled.">>], << >>)
  ELSE IF event.kind = "stack_plan_generated"
  THEN startStackCommitting(state.git, event.plan)
  ELSE IF event.kind # "files_picked" THEN invalid(state, event)
  ELSE Transition([kind |-> "staging_files", git |-> state.git,
                   selectedFiles |-> event.selectedFiles],
                  <<[kind |-> "stage_files", selectedFiles |-> event.selectedFiles]>>)

\* staging_files that logs the short stat after asking for the diff.
case_staging_files_mut(state, event) ==
  IF event.kind # "files_staged" THEN invalid(state, event)
  ELSE Transition([kind |-> "getting_diff", git |-> state.git],
                  <<[kind |-> "get_staged_diff"],
                    [kind |-> "log_info", message |-> event.shortStat]>>)

case_staging_files(state, event) ==
  IF event.kind # "files_staged" THEN invalid(state, event)
  ELSE Transition([kind |-> "getting_diff", git |-> state.git],
                  <<[kind |-> "log_info", message |-> event.shortStat],
                    [kind |-> "get_staged_diff"]>>)

case_getting_diff(state, event) ==
  IF event.kind # "diff_ready" THEN invalid(state, event)
  ELSE Transition([kind |-> "generating_details", git |-> state.git, diff |-> event.diff],
                  <<[kind |-> "generate_commit_details", diff |-> event.diff]>>)

case_generating_details(state, event) ==
  IF event.kind = "details_generated"
  THEN LET details == event.details IN
    IF state.git.onMain
    THEN Transition([kind |-> "confirming_branch", git |-> state.git, details |-> details],
                    <<[kind |-> "prompt_branch_name", suggestion |-> details.branchName]>>)
    ELSE Transition([kind |-> "confirming_commit", git |-> state.git, details |-> details,
                     branchName |-> state.git.currentBranch],
                    <<[kind |-> "show_commit_message", commitMessage |-> details.commitMessage],
                      [kind |-> "prompt_commit_action"]>>)
  ELSE IF event.kind = "details_failed" \/ event.kind = "user_cancelled"
  THEN Transition([kind |-> "cancelled", message |-> <<"Aborted.">>],
                  <<[kind |-> "unstage_all"]>>)
  ELSE invalid(state, event)

\* confirming_branch whose cancellation forgets to unstage.
case_confirming_branch_mut(state, event) ==
  IF event.kind = "user_cancelled"
  THEN Transition([kind |-> "cancelled", message |-> <<"Cancelled.">>], << >>)
  ELSE IF event.kind # "branch_confirmed" THEN invalid(state, event)
  ELSE Transition([kind |-> "confirming_commit", git |-> state.git, details |-> state.details,
                   branchName |-> event.branchName],
                  <<[kind |-> "show_commit_message",
                     commitMessage |-> state.details.commitMessage],
                    [kind |-> "prompt_commit_action"]>>)

case_confirming_branch(state, event) ==
  IF event.kind = "user_cancelled"
  THEN Transition([kind |-> "cancelled", message |-> <<"Cancelled.">>],
                  <<[kind |-> "unstage_all"]>>)
  ELSE IF event.kind # "branch_confirmed" THEN invalid(state, event)
  ELSE Transition([kind |-> "confirming_commit", git |-> state.git, details |-> state.details,
                   branchName |-> event.branchName],
                  <<[kind |-> "show_commit_message",
                     commitMessage |-> state.details.commitMessage],
                    [kind |-> "prompt_commit_action"]>>)

case_confirming_commit(state, event) ==
  IF event.kind # "commit_action" THEN invalid(state, event)
  ELSE IF event.action = "cancel"
  THEN Transition([kind |-> "cancelled", message |-> <<"Aborted.">>],
                  <<[kind |-> "unstage_all"]>>)
  ELSE IF event.action = "edit"
  THEN Transition([kind |-> "editing_commit", git |-> state.git, details |-> state.details,
                   branchName |-> state.branchName],
                  <<[kind |-> "open_editor", commitMessage |-> state.details.commitMessage]>>)
  ELSE Transition([kind |-> "committing", git |-> state.git, details |-> state.details,
                   branchName |-> state.branchName,
                   commitMessage |-> state.details.commitMessage],
                  <<[kind |-> "commit_only", branchName |-> state.branchName,
                     commitMessage |-> state.details.commitMessage,
                     onMain |-> state.git.onMain]>>)

case_editing_commit(state, event) ==
  IF event.kind # "commit_edited" THEN invalid(state, event)
  ELSE Transition([kind |-> "committing", git |-> state.git, details |-> state.details,
                   branchName |-> state.branchName, commitMessage |-> event.commitMessage],
                  <<[kind |-> "commit_only", branchName |-> state.branchName,
                     commitMessage |-> event.commitMessage, onMain |-> state.git.onMain]>>)

\* committing that keeps the GitContext as it was.
case_committing_mut(state, event) ==
  IF event.kind # "commit_done" THEN invalid(state, event)
  ELSE Transition([kind |-> "post_commit_checking_pr", git |-> state.git,
                   details |-> state.details, branchName |-> state.branchName],
                  <<[kind |-> "check_existing_pr", branch |-> state.branchName]>>)

case_committing(state, event) ==
  IF event.kind # "commit_done" THEN invalid(state, event)
  ELSE LET git == [state.git EXCEPT !.onMain = FALSE] IN
    Transition([kind |-> "post_commit_checking_pr", git |-> git, details |-> state.details,
                branchName |-> state.branchName],
               <<[kind |-> "check_existing_pr", branch |-> state.branchName]>>)

case_post_commit_checking_pr(state, event) ==
  IF event.kind = "pr_exists"
  THEN Transition([kind |-> "post_commit", git |-> state.git, details |-> state.details,
                   branchName |-> state.branchName, prUrl |-> event.prUrl],
                  <<[kind |-> "prompt_post_commit", prUrl |-> event.prUrl]>>)
  ELSE IF event.kind = "no_pr"
  THEN Transition([kind |-> "post_commit", git |-> state.git, details |-> state.details,
                   branchName |-> state.branchName],
                  <<[kind |-> "prompt_post_commit"]>>)
  ELSE invalid(state, event)

\* post_commit with the two push choices taken for each other.
case_post_commit_mut(state, event) ==
  IF event.kind # "post_commit_choice" THEN invalid(state, event)
  ELSE CASE event.choice = "create_pr" ->
         Transition([kind |-> "pushing", git |-> state.git, branchName |-> state.branchName,
                     details |-> state.details, postPush |-> "done"],
                    <<[kind |-> "push_branch", branch |-> state.branchName]>>)
       [] event.choice = "push_only" ->
         Transition([kind |-> "pushing", git |-> state.git, branchName |-> state.branchName,
                     details |-> state.details, postPush |-> "check_pr"],
                    <<[kind |-> "push_branch", branch |-> state.branchName]>>)
       [] event.choice = "commit_more" ->
         Transition([kind |-> "collecting_files", git |-> state.git],
                    <<[kind |-> "collect_files", git |-> state.git]>>)
       [] event.choice = "done" ->
         Transition([kind |-> "done", message |-> <<"Committed locally.">>], << >>)

case_post_commit(state, event) ==
  IF event.kind # "post_commit_choice" THEN invalid(state, event)
  ELSE CASE event.choice = "create_pr" ->
         Transition([kind |-> "pushing", git |-> state.git, branchName |-> state.branchName,
                     details |-> state.details, postPush |-> "check_pr"],
                    <<[kind |-> "push_branch", branch |-> state.branchName]>>)
       [] event.choice = "push_only" ->
         Transition([kind |-> "pushing", git |-> state.git, branchName |-> state.branchName,
                     details |-> state.details, postPush |-> "done"],
                    <<[kind |-> "push_branch", branch |-> state.branchName]>>)
       [] event.choice = "commit_more" ->
         Transition([kind |-> "collecting_files", git |-> state.git],
                    <<[kind |-> "collect_files", git |-> state.git]>>)
       [] event.choice = "done" ->
         Transition([kind |-> "done", message |-> <<"Committed locally.">>], << >>)

\* pushing that takes every push for a push_only.
case_pushing_mut(state, event) ==
  IF event.kind # "push_done" THEN invalid(state, event)
  ELSE IF state.postPush # "check_pr"
  THEN Transition([kind |-> "checking_pr", git |-> state.git, details |-> state.details,
                   branchName |-> state.branchName],
                  <<[kind |-> "check_existing_pr", branch |-> state.branchName]>>)
  ELSE Transition([kind |-> "done", message |-> <<"Pushed.">>], << >>)

case_pushing(state, event) ==
  IF event.kind # "push_done" THEN invalid(state, event)
  ELSE IF state.postPush = "check_pr"
  THEN Transition([kind |-> "checking_pr", git |-> state.git, details |-> state.details,
                   branchName |-> state.branchName],
                  <<[kind |-> "check_existing_pr", branch |-> state.branchName]>>)
  ELSE Transition([kind |-> "done", message |-> <<"Pushed.">>], << >>)

case_checking_pr(state, event) ==
  IF event.kind = "pr_exists"
  THEN Transition([kind |-> "confirming_merge", git |-> state.git,
                   branchName |-> state.branchName, prUrl |-> event.prUrl],
                  <<[kind |-> "log_pr_exists", prUrl |-> event.prUrl],
                    [kind |-> "prompt_confirm_merge", prUrl |-> event.prUrl]>>)
  ELSE IF event.kind = "no_pr"
  THEN Transition([kind |-> "confirming_pr", git |-> state.git, details |-> state.details,
                   branchName |-> state.branchName],
                  <<[kind |-> "show_pr_details", details |-> state.details],
                    [kind |-> "prompt_create_pr", details |-> state.details]>>)
  ELSE invalid(state, event)

case_confirming_pr(state, event) ==
  IF event.kind = "user_cancelled"
  THEN Transition([kind |-> "cancelled", message |-> <<"Cancelled.">>], << >>)
  ELSE IF event.kind # "confirm_pr" THEN invalid(state, event)
  ELSE IF ~event.accepted
  THEN Transition([kind |-> "done", message |-> <<"Done.">>],
                  <<[kind |-> "log_pr_skip", branchName |-> state.branchName]>>)
  ELSE Transition([kind |-> "creating_pr", git |-> state.git, details |-> state.details,
                   branchName |-> state.branchName],
                  <<[kind |-> "create_full_pr", branch |-> state.branchName,
                     details |-> state.details]>>)

case_creating_pr(state, event) ==
  IF event.kind # "pr_created" THEN invalid(state, event)
  ELSE Transition([kind |-> "confirming_merge", git |-> state.git,
                   branchName |-> state.branchName, prUrl |-> event.prUrl],
                  <<[kind |-> "log_pr_created", prUrl |-> event.prUrl],
                    [kind |-> "prompt_confirm_merge", prUrl |-> event.prUrl]>>)

\* confirming_merge with the answer read the wrong way round.
case_confirming_merge_mut(state, event) ==
  IF event.kind = "user_cancelled"
  THEN Transition([kind |-> "cancelled", message |-> <<"Cancelled.">>], << >>)
  ELSE IF event.kind # "confirm_merge" THEN invalid(state, event)
  ELSE IF event.accepted
  THEN Transition([kind |-> "done", message |-> <<"PR open: ">> \o state.prUrl],
                  <<[kind |-> "log_merge_skip", prUrl |-> state.prUrl,
                     branchName |-> state.branchName, onMain |-> state.git.onMain]>>)
  ELSE Transition([kind |-> "merging", git |-> state.git, branchName |-> state.branchName,
                   prUrl |-> state.prUrl],
                  <<[kind |-> "merge_and_cleanup", prUrl |-> state.prUrl,
                     onMain |-> state.git.onMain]>>)

case_confirming_merge(state, event) ==
  IF event.kind = "user_cancelled"
  THEN Transition([kind |-> "cancelled", message |-> <<"Cancelled.">>], << >>)
  ELSE IF event.kind # "confirm_merge" THEN invalid(state, event)
  ELSE IF ~event.accepted
  THEN Transition([kind |-> "done", message |-> <<"PR open: ">> \o state.prUrl],
                  <<[kind |-> "log_merge_skip", prUrl |-> state.prUrl,
                     branchName |-> state.branchName, onMain |-> state.git.onMain]>>)
  ELSE Transition([kind |-> "merging", git |-> state.git, branchName |-> state.branchName,
                   prUrl |-> state.prUrl],
                  <<[kind |-> "merge_and_cleanup", prUrl |-> state.prUrl,
                     onMain |-> state.git.onMain]>>)

case_merging(state, event) ==
  IF event.kind # "merge_done" THEN invalid(state, event)
  ELSE Transition([kind |-> "done", message |-> <<"Shipped! ">> \o event.prUrl], << >>)

\* plan.groups.map(g => g.commitMessage)
GroupMessages(plan) == [i \in 1..Len(plan.groups) |-> plan.groups[i].commitMessage]

\* stackNextGroup that passes the GitContext's onMain on.
stackNextGroup_mut(state, event) ==
  Transition([kind |-> "stack_committing", git |-> state.git, plan |-> state.plan,
              currentIndex |-> event.nextIndex],
             <<[kind |-> "execute_stack_commit",
                group |-> GroupAt(state.plan, event.nextIndex),
                branchName |-> state.plan.branchName, isFirst |-> FALSE,
                onMain |-> state.git.onMain, index |-> event.nextIndex]>>)

\* stack_committing with more groups left: the next group's commit effect.
stackNextGroup(state, event) ==
  Transition([kind |-> "stack_committing", git |-> state.git, plan |-> state.plan,
              currentIndex |-> event.nextIndex],
             <<[kind |-> "execute_stack_commit",
                group |-> GroupAt(state.plan, event.nextIndex),
                branchName |-> state.plan.branchName, isFirst |-> FALSE,
                onMain |-> FALSE, index |-> event.nextIndex]>>)

\* stackExhausted that always takes the plan's branch name.
stackExhausted_mut(state) ==
  LET plan == state.plan
      actualBranch == plan.branchName
      details == [branchName |-> actualBranch,
                  commitMessage |-> Join(GroupMessages(plan), <<"\n">>),
                  prTitle |-> plan.prTitle,
                  prBody |-> plan.prBody]
  IN Transition([kind |-> "post_commit_checking_pr",
                 git |-> [state.git EXCEPT !.onMain = FALSE],
                 details |-> details, branchName |-> actualBranch],
                <<[kind |-> "check_existing_pr", branch |-> actualBranch]>>)

\* stack_committing once the groups are exhausted: the combined CommitDetails.
stackExhausted(state) ==
  LET plan == state.plan
      actualBranch == IF state.git.onMain THEN plan.branchName ELSE state.git.currentBranch
      details == [branchName |-> actualBranch,
                  commitMessage |-> Join(GroupMessages(plan), <<"\n">>),
                  prTitle |-> plan.prTitle,
                  prBody |-> plan.prBody]
  IN Transition([kind |-> "post_commit_checking_pr",
                 git |-> [state.git EXCEPT !.onMain = FALSE],
                 details |-> details, branchName |-> actualBranch],
                <<[kind |-> "check_existing_pr", branch |-> actualBranch]>>)

\* stack_committing that stops one group early.
case_stack_committing_mut(state, event) ==
  IF event.kind # "stack_commit_done" THEN invalid(state, event)
  ELSE IF event.nextIndex < Len(state.plan.groups) - 1
  THEN stackNextGroup(state, event)
  ELSE stackExhausted(state)

case_stack_committing(state, event) ==
  IF event.kind # "stack_commit_done" THEN invalid(state, event)
  ELSE IF event.nextIndex < Len(state.plan.groups)
  THEN stackNextGroup(state, event)
  ELSE stackExhausted(state)

\* A terminal state that absorbs events instead of reporting them.
case_terminal_mut(state, event) == Transition(state, << >>)

\* Terminal states should never receive events.
case_terminal(state, event) == invalid(state, event)

transition(state, event) ==
  CASE state.kind = "preflight" -> case_preflight(state, event)
    [] state.kind = "checking_remote" -> case_checking_remote(state, event)
    [] state.kind = "confirming_pull" -> case_confirming_pull(state, event)
    [] state.kind = "pulling" -> case_pulling(state, event)
    [] state.kind = "fast_path_logging" -> case_fast_path_logging(state, event)
    [] state.kind = "fast_path_pushing" -> case_fast_path_pushing(state, event)
    [] state.kind = "fast_path_checking_pr" -> case_fast_path_checking_pr(state, event)
    [] state.kind = "fast_path_generating_pr" -> case_fast_path_generating_pr(state, event)
    [] state.kind = "fast_path_confirming_pr" -> case_fast_path_confirming_pr(state, event)
    [] state.kind = "fast_path_creating_pr" -> case_fast_path_creating_pr(state, event)
    [] state.kind = "fast_path_confirming_merge" ->
         case_fast_path_confirming_merge(state, event)
    [] state.kind = "fast_path_merging" -> case_fast_path_merging(state, event)
    [] state.kind = "collecting_files" -> case_collecting_files(state, event)
    [] state.kind = "picking_files" -> case_picking_files(state, event)
    [] state.kind = "staging_files" -> case_staging_files(state, event)
    [] state.kind = "getting_diff" -> case_getting_diff(state, event)
    [] state.kind = "generating_details" -> case_generating_details(state, event)
    [] state.kind = "confirming_branch" -> case_confirming_branch(state, event)
    [] state.kind = "confirming_commit" -> case_confirming_commit(state, event)
    [] state.kind = "editing_commit" -> case_editing_commit(state, event)
    [] state.kind = "committing" -> case_committing(state, event)
    [] state.kind = "post_commit_checking_pr" -> case_post_commit_checking_pr(state, event)
    [] state.kind = "post_commit" -> case_post_commit(state, event)
    [] state.kind = "pushing" -> case_pushing(state, event)
    [] state.kind = "checking_pr" -> case_checking_pr(state, event)
    [] state.kind = "confirming_pr" -> case_confirming_pr(state, event)
    [] state.kind = "creating_pr" -> case_creating_pr(state, event)
    [] state.kind = "confirming_merge" -> case_confirming_merge(state, event)
    [] state.kind = "merging" -> case_merging(state, event)
    [] state.kind = "stack_committing" -> case_stack_committing(state, event)
    [] state.kind \in TerminalKinds -> case_terminal(state, event)

\* ------------------------------------------------------------ variables
VARIABLES
  argv,      \* the command line after the program name (process.argv.slice(2))
  mode,      \* CliMode given to the executor (parseArgs' result)
  world,     \* the repository, the remote and the forge, as git and gh see them
  state,     \* run loop: current State
  effects,   \* run loop: effect list still to perform for the current state
  next,      \* run loop: index (1-based) of the next effect of the list to execute
  event,     \* run loop: last non-null executor result of this iteration, or Null
  pc,        \* "loop" while the while-loop runs, "render" after it, "exited" at the end
  exitCode,  \* process exit status, set by the terminal rendering
  emitted,   \* history: the effects handed to the run loop, in order (see Hist)
  executed,  \* history: the effects whose execution was started, in order (see Hist)
  events,    \* history: the events fed to transition, in order (see HistEvent)
  threw,     \* history: an executor exception ended the run
  preStaged, \* history: the set of staged paths when the run started
  visited,   \* history: the state kinds entered since the last preflight (see Visit)
  tIn,       \* pure-function check: the (state, event) pair given to transition
  tOut       \* pure-function check: the Transition it returned, or Null

vars == <<argv, mode, world, state, effects, next, event, pc, exitCode,
          emitted, executed, events, threw, preStaged, visited, tIn, tOut>>

\* --------------------------------------------------------- the git world
Branches == {"main", "master", "feat"}
SuggestedBranches == {"feat-x"}      \* branch_name values the provider returns
TypedBranchNames == {"my-branch"}    \* normalised results of typed branch names
CommitMessages == {<<"feat: a">>, <<"fix: b">>}
PrTitle == <<"feat: title">>
PrBody == <<"## Summary">>

RECURSIVE SortedSeq(_)
SortedSeq(S) ==
  IF S = {} THEN << >>
  ELSE LET m == CHOOSE x \in S : \A y \in S : x <= y
       IN <<m>> \o SortedSeq(S \ {m})

Range(seq) == {seq[i] : i \in DOMAIN seq}

PrUrl(branch) == <<"https://pr/", branch>>

Unstaged(w) == {f \in w.wt : f \notin w.newFiles}    \* git diff --name-only
Untracked(w) == {f \in w.wt : f \in w.newFiles}      \* git ls-files --others

\* git reset HEAD --quiet
GitReset(w) == [w EXCEPT !.staged = {}, !.wt = w.wt \cup w.staged]

\* git add f, for every f of S (a path without changes is left alone)
GitAdd(w, S) == [w EXCEPT !.staged = w.staged \cup (S \cap w.wt), !.wt = w.wt \ S]

\* git commit -m: possible only with something staged
CanCommit(w) == w.staged # {}
GitCommit(w) ==
  [w EXCEPT !.staged = {},
            !.newFiles = w.newFiles \ w.staged,
            !.aheadMain = w.aheadMain + 1,
            !.aheadUp = w.aheadUp + 1,
            !.commits = Append(w.commits, w.staged)]

\* git checkout -b name: fails when the branch exists
CanCheckoutNew(w, name) == name \notin w.localBranches
GitCheckoutNew(w, name) ==
  [w EXCEPT !.branch = name, !.localBranches = w.localBranches \cup {name},
            !.aheadUp = 0]

\* git push -u origin branch
CanPush(w, branch) == branch \in w.localBranches
GitPush(w, branch) ==
  [w EXCEPT !.remote = w.remote \cup {branch},
            !.aheadUp = IF branch = w.branch THEN 0 ELSE w.aheadUp,
            !.pushed = w.pushed \cup {branch}]

\* ------------------------------------------------------- effect executor
isAuto == mode.kind = "auto"
isStack == mode.kind = "auto" /\ mode.stack

Throw(msg) == [kind |-> "throw", message |-> msg]
Outcome(w, r) == [world |-> w, result |-> r]
CommandFailed == Throw(<<"Command failed">>)

\* The world after the user cancelled a prompt (p.isCancel).
Cancelled(w) == [w EXCEPT !.promptCancelled = TRUE]

\* What the provider can return for a diff: CommitDetails, PrDetails, or null.
CommitDetailsSet ==
  [branchName : SuggestedBranches, commitMessage : {<<"feat: a">>},
   prTitle : {PrTitle}, prBody : {PrBody}]
PrDetailsSet == [prTitle : {PrTitle}, prBody : {PrBody}]

\* StackPlan values the provider schema allows (STACK_SCHEMA): any number of
\* groups, any paths in a group.
StackGroups == [files : SUBSET Files, commitMessage : {<<"feat: a">>}]
StackPlans ==
  UNION { [groups : [1..n -> StackGroups], branchName : SuggestedBranches,
           prTitle : {PrTitle}, prBody : {PrBody}] : n \in 0..MaxGroups }

exec_check_tools(effect, w) ==
  IF ~w.gh THEN {Outcome(w, [kind |-> "user_cancelled"])}
  ELSE
    LET currentBranch == w.branch
        onMain == currentBranch = "main"
        hasStaged == w.staged # {}
        hasUnstaged == Unstaged(w) # {}
        untrackedRaw == SortedSeq(Untracked(w))
        hasUntracked == Len(untrackedRaw) > 0
        hasChanges == hasStaged \/ hasUnstaged \/ hasUntracked
        hasUpstream == ~onMain /\ currentBranch \in w.remote
        unpushedCount == IF ~onMain /\ hasUpstream THEN w.aheadUp
                         ELSE IF ~onMain /\ ~hasUpstream THEN w.aheadMain
                         ELSE 0
        unmergedCount == IF ~onMain THEN w.aheadMain ELSE 0
    IN {Outcome(w, [kind |-> "tools_ok",
                    git |-> [currentBranch |-> currentBranch, onMain |-> onMain,
                             hasStaged |-> hasStaged, hasUnstaged |-> hasUnstaged,
                             hasUntracked |-> hasUntracked, hasChanges |-> hasChanges,
                             hasUpstream |-> hasUpstream, unpushedCount |-> unpushedCount,
                             unmergedCount |-> unmergedCount,
                             untrackedRaw |-> untrackedRaw]])}

\* log_info, show_note, log_pr_found, log_pr_created, show_commit_message,
\* log_pr_exists, show_pr_details, log_merge_skip, log_pr_skip: print, return null.
exec_log(effect, w) == {Outcome(w, Null)}

exec_show_commit_log(effect, w) ==
  {Outcome(w, [kind |-> "commit_log_ready", commitLog |-> w.aheadMain])}

\* The answers a confirm prompt can give: TRUE, FALSE, or "cancel".
ConfirmAnswers == {"yes", "no", "cancel"}

exec_push_branch(effect, w) ==
  LET push == IF CanPush(w, effect.branch)
              THEN {Outcome(GitPush(w, effect.branch), [kind |-> "push_done"]),
                    Outcome(w, CommandFailed)}
              ELSE {Outcome(w, CommandFailed)}
  IN IF effect.branch = "main" \/ effect.branch = "master"
     THEN {Outcome([w EXCEPT !.trunkPrompts = w.trunkPrompts + 1],
                   [kind |-> "user_cancelled"]),
           Outcome(Cancelled([w EXCEPT !.trunkPrompts = w.trunkPrompts + 1]),
                   [kind |-> "user_cancelled"])}
          \cup { Outcome([o.world EXCEPT !.trunkPrompts = w.trunkPrompts + 1,
                                          !.trunkAccepted = w.trunkAccepted \cup {effect.branch}],
                         o.result)
                 : o \in push }
     ELSE push

exec_check_existing_pr(effect, w) ==
  IF effect.branch \in w.prs
  THEN {Outcome(w, [kind |-> "pr_exists", prUrl |-> PrUrl(effect.branch)])}
  ELSE {Outcome(w, [kind |-> "no_pr"])}

exec_get_diff_main(effect, w) ==
  {Outcome(w, [kind |-> "diff_ready", diff |-> IF w.aheadMain > 0 THEN {0} ELSE {}])}

\* A generation effect: the provider's answer, then (interactive only) the
\* manual fallback. Without an API key the provider is the ManualProvider, whose
\* cancelled input is a null result like any other. manualAsks counts the manual
\* inputs the effect asked for.
Generate(w, generated, failed) ==
  LET asked(n) == [w EXCEPT !.manualAsks = n]
      fallback(n) == {Outcome(asked(n + 1), ev) : ev \in generated \cup {failed}}
  IN IF w.apiKey
     THEN {Outcome(asked(0), ev) : ev \in generated}
          \cup (IF isAuto THEN {Outcome(asked(0), failed)} ELSE fallback(0))
     ELSE {Outcome(asked(1), ev) : ev \in generated}
          \cup (IF isAuto THEN {Outcome(asked(1), failed)} ELSE fallback(1))

exec_generate_pr_details(effect, w) ==
  Generate(w, {[kind |-> "pr_details_generated", prDetails |-> d] : d \in PrDetailsSet},
           [kind |-> "pr_details_failed"])

\* prompt_confirm_pr and prompt_create_pr
exec_prompt_confirm_pr(effect, w) ==
  IF isAuto THEN {Outcome(w, [kind |-> "confirm_pr", accepted |-> TRUE])}
  ELSE {Outcome(Cancelled(w), [kind |-> "user_cancelled"]),
        Outcome(w, [kind |-> "confirm_pr", accepted |-> TRUE]),
        Outcome(w, [kind |-> "confirm_pr", accepted |-> FALSE])}

\* create_pr and create_full_pr: run() does not look at the exit status, so a
\* failed gh pr create yields pr_created with the empty output as URL.
exec_create_pr(effect, w) ==
  {Outcome(w, [kind |-> "pr_created", prUrl |-> << >>])}
  \cup IF effect.branch \in w.remote /\ effect.branch \notin w.prs
       THEN {Outcome([w EXCEPT !.prs = w.prs \cup {effect.branch},
                               !.created = w.created \cup {effect.branch}],
                     [kind |-> "pr_created", prUrl |-> PrUrl(effect.branch)])}
       ELSE {}

exec_prompt_confirm_merge(effect, w) ==
  IF isAuto THEN {Outcome(w, [kind |-> "confirm_merge", accepted |-> FALSE])}
  ELSE {Outcome(Cancelled(w), [kind |-> "user_cancelled"]),
        Outcome(w, [kind |-> "confirm_merge", accepted |-> TRUE]),
        Outcome(w, [kind |-> "confirm_merge", accepted |-> FALSE])}

\* gh pr merge; git checkout main (if onMain); git pull origin main
exec_merge_and_cleanup(effect, w) ==
  LET canMerge == \E b \in w.prs : PrUrl(b) = effect.prUrl
      merged == [w EXCEPT !.prs = {b \in w.prs : PrUrl(b) # effect.prUrl},
                          !.merged = w.merged \cup {effect.prUrl}]
      home == IF effect.onMain THEN [merged EXCEPT !.branch = "main"] ELSE merged
  IN {Outcome(w, CommandFailed)}
     \cup IF canMerge
          THEN {Outcome(merged, CommandFailed),
                Outcome(home, [kind |-> "merge_done", prUrl |-> effect.prUrl])}
          ELSE {}

\* The paths of seq that are not in seen, in order.
NotSeen(seq, seen) == SelectSeq(seq, LAMBDA f : f \notin seen)
Entries(paths, status) == [i \in 1..Len(paths) |-> [path |-> paths[i], status |-> status]]

\* collect_files: the flags and the untracked listing come from the GitContext
\* snapshot, the staged and modified listings from git at execution time.
exec_collect_files(effect, w) ==
  LET git == effect.git
      stagedPaths == IF git.hasStaged THEN SortedSeq(w.staged) ELSE << >>
      modifiedPaths == IF git.hasUnstaged
                       THEN NotSeen(SortedSeq(Unstaged(w)), Range(stagedPaths))
                       ELSE << >>
      newPaths == IF git.hasUntracked
                  THEN NotSeen(git.untrackedRaw, Range(stagedPaths) \cup Range(modifiedPaths))
                  ELSE << >>
  IN {Outcome(w, [kind |-> "files_collected",
                  files |-> Entries(stagedPaths, "staged")
                            \o Entries(modifiedPaths, "modified")
                            \o Entries(newPaths, "new")])}

Paths(files) == [i \in 1..Len(files) |-> files[i].path]

\* for (const f of paths) runLive(["git", "add", f]) stopped by a failure after
\* k paths: the world each failure leaves behind.
AddFailures(w, paths) ==
  { Outcome(GitAdd(w, {paths[i] : i \in 1..k}), CommandFailed) : k \in 0..(Len(paths) - 1) }

\* The non-empty selections of a multiselect over paths, in option order.
Selections(paths) ==
  { NotSeen(paths, Range(paths) \ S) : S \in (SUBSET Range(paths)) \ {{}} }

exec_prompt_file_picker(effect, w) ==
  LET allPaths == Paths(effect.files)
      reset == GitReset(w)
      all == GitAdd(reset, Range(allPaths))
  IN IF isAuto
     THEN IF isStack
          THEN AddFailures(reset, allPaths)
               \cup {Outcome(all, [kind |-> "user_cancelled"])}
               \cup { Outcome(GitReset(all), [kind |-> "stack_plan_generated", plan |-> plan])
                      : plan \in StackPlans }
          ELSE {Outcome(w, [kind |-> "files_picked", selectedFiles |-> allPaths])}
     ELSE {Outcome(Cancelled(w), [kind |-> "user_cancelled"]),
           Outcome(w, [kind |-> "files_picked", selectedFiles |-> allPaths])}
          \cup { Outcome(w, [kind |-> "files_picked", selectedFiles |-> sel])
                 : sel \in Selections(allPaths) }

exec_stage_files(effect, w) ==
  LET reset == GitReset(w)
      all == GitAdd(reset, Range(effect.selectedFiles))
  IN AddFailures(reset, effect.selectedFiles)
     \cup {Outcome(all, [kind |-> "files_staged", shortStat |-> Cardinality(all.staged)])}

exec_get_staged_diff(effect, w) ==
  {Outcome(w, [kind |-> "diff_ready", diff |-> w.staged])}

exec_generate_commit_details(effect, w) ==
  Generate(w, {[kind |-> "details_generated", details |-> d] : d \in CommitDetailsSet},
           [kind |-> "details_failed"])

\* prompt_branch_name: a typed name is lower-cased and stripped to [a-z0-9._/-];
\* TypedBranchNames holds results of that normalisation.
exec_prompt_branch_name(effect, w) ==
  IF isAuto THEN {Outcome(w, [kind |-> "branch_confirmed", branchName |-> effect.suggestion])}
  ELSE {Outcome(Cancelled(w), [kind |-> "user_cancelled"]),
        Outcome(w, [kind |-> "branch_confirmed", branchName |-> effect.suggestion])}
       \cup { Outcome(w, [kind |-> "branch_confirmed", branchName |-> b])
              : b \in TypedBranchNames }

exec_prompt_commit_action(effect, w) ==
  IF isAuto THEN {Outcome(w, [kind |-> "commit_action", action |-> "accept"])}
  ELSE {Outcome(Cancelled(w), [kind |-> "user_cancelled"])}
       \cup { Outcome(w, [kind |-> "commit_action", action |-> a])
              : a \in {"accept", "edit", "cancel"} }

EditedMessages == {<<"feat: edited">>}
exec_open_editor(effect, w) ==
  { Outcome(w, [kind |-> "commit_edited", commitMessage |-> m])
    : m \in EditedMessages }

\* git checkout -b (if create); git commit -m: every way the pair can end.
CheckoutAndCommit(w, create, branchName, done) ==
  LET onBranch == IF create THEN GitCheckoutNew(w, branchName) ELSE w
      checkoutOk == ~create \/ CanCheckoutNew(w, branchName)
  IN (IF create THEN {Outcome(w, CommandFailed)} ELSE {})
     \cup (IF checkoutOk THEN {Outcome(onBranch, CommandFailed)} ELSE {})
     \cup (IF checkoutOk /\ CanCommit(onBranch)
           THEN {Outcome(GitCommit(onBranch), done)} ELSE {})

exec_commit_only(effect, w) ==
  CheckoutAndCommit(w, effect.onMain, effect.branchName, [kind |-> "commit_done"])

exec_unstage_all(effect, w) == {Outcome(GitReset(w), Null)}

exec_check_remote_status(effect, w) ==
  {Outcome(w, [kind |-> "remote_status", behind |-> w.behind])}

exec_prompt_confirm_pull(effect, w) ==
  IF isAuto THEN {Outcome(w, [kind |-> "confirm_pull", accepted |-> TRUE])}
  ELSE {Outcome(Cancelled(w), [kind |-> "confirm_pull", accepted |-> FALSE]),
        Outcome(w, [kind |-> "confirm_pull", accepted |-> FALSE]),
        Outcome(w, [kind |-> "confirm_pull", accepted |-> TRUE])}

exec_pull_remote(effect, w) ==
  {Outcome(w, [kind |-> "pull_conflict", message |-> <<"CONFLICT in file">>]),
   Outcome(w, Throw(<<"git pull failed: ", "fatal">>)),
   Outcome([w EXCEPT !.behind = 0], [kind |-> "pull_done"])}

PostCommitChoices == {"create_pr", "push_only", "commit_more", "done"}
\* prompt_post_commit whose --local run asks for one more commit first.
exec_prompt_post_commit_mut(effect, w) ==
  IF isAuto
  THEN LET goal == IF mode.kind = "auto" THEN mode.goal ELSE "local"
       IN IF goal = "local"
          THEN {Outcome(w, [kind |-> "post_commit_choice",
                            choice |-> IF Len(w.commits) <= MaxCommitMore
                                       THEN "commit_more" ELSE "done"])}
          ELSE IF goal = "push"
          THEN {Outcome(w, [kind |-> "post_commit_choice", choice |-> "push_only"])}
          ELSE {Outcome(w, [kind |-> "post_commit_choice", choice |-> "create_pr"])}
  ELSE {Outcome(Cancelled(w), [kind |-> "post_commit_choice", choice |-> "done"])}
       \cup
       { Outcome(w, [kind |-> "post_commit_choice", choice |-> c])
         : c \in {c \in PostCommitChoices :
                   c = "commit_more" => Len(w.commits) <= MaxCommitMore} }

exec_prompt_post_commit(effect, w) ==
  IF isAuto
  THEN LET goal == IF mode.kind = "auto" THEN mode.goal ELSE "local"
       IN IF goal = "local" THEN {Outcome(w, [kind |-> "post_commit_choice", choice |-> "done"])}
          ELSE IF goal = "push"
          THEN {Outcome(w, [kind |-> "post_commit_choice", choice |-> "push_only"])}
          ELSE {Outcome(w, [kind |-> "post_commit_choice", choice |-> "create_pr"])}
  ELSE {Outcome(Cancelled(w), [kind |-> "post_commit_choice", choice |-> "done"])}
       \cup
       { Outcome(w, [kind |-> "post_commit_choice", choice |-> c])
         : c \in {c \in PostCommitChoices :
                   c = "commit_more" => Len(w.commits) <= MaxCommitMore} }

\* execute_stack_commit: reading effect.group.files of an undefined group is a
\* TypeError, raised after the reset.
exec_execute_stack_commit(effect, w) ==
  LET reset == GitReset(w) IN
  IF effect.group = Undefined
  THEN {Outcome(reset, Throw(<<"undefined is not an object">>))}
  ELSE LET paths == SortedSeq(effect.group.files)
           all == GitAdd(reset, effect.group.files)
       IN AddFailures(reset, paths)
          \cup CheckoutAndCommit(all, effect.isFirst /\ effect.onMain, effect.branchName,
                                 [kind |-> "stack_commit_done", nextIndex |-> effect.index + 1])

LogKinds ==
  { "log_info", "show_note", "log_pr_found", "log_pr_created", "show_commit_message",
    "log_pr_exists", "show_pr_details", "log_merge_skip", "log_pr_skip" }

\* execute(effect): the set of ways the execution can end, each the world it
\* leaves and its result (an Event, Null, or a thrown error).
execute(effect, w) ==
  LET w0 == [w EXCEPT !.manualAsks = 0, !.promptCancelled = FALSE] IN
  CASE effect.kind = "check_tools" -> exec_check_tools(effect, w0)
    [] effect.kind \in LogKinds -> exec_log(effect, w0)
    [] effect.kind = "show_commit_log" -> exec_show_commit_log(effect, w0)
    [] effect.kind = "push_branch" -> exec_push_branch(effect, w0)
    [] effect.kind = "check_existing_pr" -> exec_check_existing_pr(effect, w0)
    [] effect.kind = "get_diff_main" -> exec_get_diff_main(effect, w0)
    [] effect.kind = "generate_pr_details" -> exec_generate_pr_details(effect, w0)
    [] effect.kind \in {"prompt_confirm_pr", "prompt_create_pr"} ->
         exec_prompt_confirm_pr(effect, w0)
    [] effect.kind \in {"create_pr", "create_full_pr"} -> exec_create_pr(effect, w0)
    [] effect.kind = "prompt_confirm_merge" -> exec_prompt_confirm_merge(effect, w0)
    [] effect.kind = "merge_and_cleanup" -> exec_merge_and_cleanup(effect, w0)
    [] effect.kind = "collect_files" -> exec_collect_files(effect, w0)
    [] effect.kind = "prompt_file_picker" -> exec_prompt_file_picker(effect, w0)
    [] effect.kind = "stage_files" -> exec_stage_files(effect, w0)
    [] effect.kind = "get_staged_diff" -> exec_get_staged_diff(effect, w0)
    [] effect.kind = "generate_commit_details" -> exec_generate_commit_details(effect, w0)
    [] effect.kind = "prompt_branch_name" -> exec_prompt_branch_name(effect, w0)
    [] effect.kind = "prompt_commit_action" -> exec_prompt_commit_action(effect, w0)
    [] effect.kind = "open_editor" -> exec_open_editor(effect, w0)
    [] effect.kind = "commit_only" -> exec_commit_only(effect, w0)
    [] effect.kind = "unstage_all" -> exec_unstage_all(effect, w0)
    [] effect.kind = "check_remote_status" -> exec_check_remote_status(effect, w0)
    [] effect.kind = "prompt_confirm_pull" -> exec_prompt_confirm_pull(effect, w0)
    [] effect.kind = "pull_remote" -> exec_pull_remote(effect, w0)
    [] effect.kind = "prompt_post_commit" -> exec_prompt_post_commit(effect, w0)
    [] effect.kind = "execute_stack_commit" -> exec_execute_stack_commit(effect, w0)
    [] OTHER -> {Outcome(w0, Throw(<<"Unhandled effect: ", effect.kind>>))}

\* ------------------------------------------------------------- run loop
\* What the histories keep of an effect: its kind and the fields that name a
\* branch, a position or a URL; effects that only print or prompt are left out.
RecordedEffects ==
  { "check_tools", "collect_files", "stage_files", "unstage_all", "commit_only",
    "execute_stack_commit", "push_branch", "create_pr", "create_full_pr",
    "merge_and_cleanup", "pull_remote", "generate_commit_details", "generate_pr_details",
    "check_existing_pr", "prompt_confirm_merge" }

Hist(effect) ==
  CASE effect.kind \in {"push_branch", "create_pr", "create_full_pr", "check_existing_pr"} ->
         [kind |-> effect.kind, branch |-> effect.branch]
    [] effect.kind = "commit_only" ->
         [kind |-> effect.kind, branchName |-> effect.branchName, onMain |-> effect.onMain]
    [] effect.kind = "execute_stack_commit" ->
         [kind |-> effect.kind, index |-> effect.index, group |-> effect.group,
          onMain |-> effect.onMain, isFirst |-> effect.isFirst]
    [] effect.kind \in {"merge_and_cleanup", "prompt_confirm_merge"} ->
         [kind |-> effect.kind, prUrl |-> effect.prUrl]
    [] OTHER -> [kind |-> effect.kind]

HistAll(effs) == 
  LET rec == SelectSeq(effs, LAMBDA e : e.kind \in RecordedEffects)
  IN [i \in 1..Len(rec) |-> Hist(rec[i])]

RecordedEvents ==
  { "tools_ok", "files_collected", "stack_plan_generated", "commit_done",
    "stack_commit_done", "push_done", "pull_done", "merge_done", "pr_created",
    "post_commit_choice", "confirm_merge", "pr_exists", "details_failed",
    "pull_conflict", "branch_confirmed" }

\* What the history keeps of an event, and after how many recorded effects it came.
HistEvent(ev, after) ==
  CASE ev.kind = "stack_commit_done" ->
         [kind |-> ev.kind, after |-> after, nextIndex |-> ev.nextIndex]
    [] ev.kind = "stack_plan_generated" ->
         [kind |-> ev.kind, after |-> after, plan |-> ev.plan]
    [] ev.kind = "files_collected" ->
         [kind |-> ev.kind, after |-> after, paths |-> Range(Paths(ev.files))]
    [] ev.kind = "tools_ok" -> [kind |-> ev.kind, after |-> after, git |-> ev.git]
    [] ev.kind = "pr_created" -> [kind |-> ev.kind, after |-> after, prUrl |-> ev.prUrl]
    [] ev.kind = "confirm_merge" ->
         [kind |-> ev.kind, after |-> after, accepted |-> ev.accepted]
    [] ev.kind = "post_commit_choice" ->
         [kind |-> ev.kind, after |-> after, choice |-> ev.choice]
    [] ev.kind = "branch_confirmed" ->
         [kind |-> ev.kind, after |-> after, branchName |-> ev.branchName]
    [] OTHER -> [kind |-> ev.kind, after |-> after]

\* Command-line words: the four flags, a flag parseArgs does not know, the
\* setup subcommand and another positional word.
GoalFlags == {"--local", "--push", "--pr"}
ArgFlags == GoalFlags \cup {"--stack", "--verbose"}
ArgWords == ArgFlags \cup {"setup", "now"}
Exit(code) == [kind |-> "exit", code |-> code]

\* parseArgs whose --stack check looks at --local only.
parseArgs_mut(args) ==
  LET includes(a) == \E i \in DOMAIN args : args[i] = a
      hasLocal == includes("--local")
      hasPush == includes("--push")
      hasPr == includes("--pr")
      hasStack == includes("--stack")
      goalCount == Cardinality({f \in GoalFlags : includes(f)})
      positional == SelectSeq(args, LAMBDA a : a \notin ArgFlags)
  IN IF goalCount > 1 THEN Exit(1)
     ELSE IF hasStack /\ hasLocal THEN Exit(1)
     ELSE IF positional # << >> /\ positional[1] = "setup" THEN [kind |-> "setup"]
     ELSE IF hasLocal THEN [kind |-> "auto", goal |-> "local", stack |-> FALSE]
     ELSE IF hasPush THEN [kind |-> "auto", goal |-> "push", stack |-> hasStack]
     ELSE IF hasPr THEN [kind |-> "auto", goal |-> "pr", stack |-> hasStack]
     ELSE [kind |-> "interactive"]

\* parseArgs(argv) for args = argv.slice(2): the CliMode, or the process exit.
parseArgs(args) ==
  LET includes(a) == \E i \in DOMAIN args : args[i] = a
      hasLocal == includes("--local")
      hasPush == includes("--push")
      hasPr == includes("--pr")
      hasStack == includes("--stack")
      goalCount == Cardinality({f \in GoalFlags : includes(f)})
      positional == SelectSeq(args, LAMBDA a : a \notin ArgFlags)
  IN IF goalCount > 1 THEN Exit(1)
     ELSE IF hasStack /\ ~hasPush /\ ~hasPr THEN Exit(1)
     ELSE IF positional # << >> /\ positional[1] = "setup" THEN [kind |-> "setup"]
     ELSE IF hasLocal THEN [kind |-> "auto", goal |-> "local", stack |-> FALSE]
     ELSE IF hasPush THEN [kind |-> "auto", goal |-> "push", stack |-> hasStack]
     ELSE IF hasPr THEN [kind |-> "auto", goal |-> "pr", stack |-> hasStack]
     ELSE [kind |-> "interactive"]

\* The command lines of the README: ship, and ship with each autonomous mode.
CommandLines ==
  { << >>, <<"--local">>, <<"--push">>, <<"--push", "--stack">>, <<"--pr">>,
    <<"--pr", "--stack">> }

\* The CliMode values parseArgs returns for a run of the state machine.
Modes ==
  {[kind |-> "interactive"]}
  \cup {[kind |-> "auto", goal |-> "local", stack |-> FALSE]}
  \cup [kind : {"auto"}, goal : {"push", "pr"}, stack : BOOLEAN]

FileStatuses == {"clean", "staged", "modified", "untracked"}

\* A repository: gh installed or not, current branch b, the status st[f] of every
\* path, whether origin/b exists, whether b has an open PR, and the commit counts
\* origin/b..HEAD (au), origin/main..HEAD (am) and HEAD..origin/b (bh).
WorldOf(gh, b, st, up, pr, au, am, bh) ==
  [gh |-> gh, branch |-> b, localBranches |-> {"main", b},
   staged |-> {f \in Files : st[f] = "staged"},
   wt |-> {f \in Files : st[f] \in {"modified", "untracked"}},
   newFiles |-> {f \in Files : st[f] = "untracked"},
   remote |-> {"main"} \cup (IF up /\ b # "main" THEN {b} ELSE {}),
   aheadUp |-> IF up /\ b # "main" THEN au ELSE 0,
   aheadMain |-> IF b # "main" THEN am ELSE 0,
   behind |-> IF up /\ b # "main" THEN bh ELSE 0,
   prs |-> IF pr /\ b # "main" THEN {b} ELSE {},
   merged |-> {}, commits |-> << >>, pushed |-> {}, created |-> {},
   trunkPrompts |-> 0, trunkAccepted |-> {}, apiKey |-> TRUE, manualAsks |-> 0,
   promptCancelled |-> FALSE]

Clean == [f \in Files |-> "clean"]
OneModified == [f \in Files |-> IF f = 1 THEN "modified" ELSE "clean"]

\* The repositories a run can start in: every working-tree status on a branch
\* without upstream or PR; every remote situation on a clean tree and on a
\* tree with one modified path; and a machine without gh.
FileWorlds ==
  { WorldOf(TRUE, b, st, FALSE, FALSE, 0, 0, 0)
    : b \in Branches, st \in [Files -> FileStatuses] }
RemoteWorlds ==
  { WorldOf(TRUE, b, st, up, pr, au, am, bh)
    : b \in Branches, st \in {Clean, OneModified}, up \in BOOLEAN, pr \in BOOLEAN,
      au \in {0, MaxAhead}, am \in {0, MaxAhead}, bh \in {0, MaxBehind} }
NoGhWorlds ==
  { WorldOf(FALSE, b, OneModified, FALSE, FALSE, 0, 0, 0) : b \in Branches }
\* Without GROQ_API_KEY and ANTHROPIC_API_KEY: a trunk and a feature branch
\* with one modified path, and a clean feature branch with a commit to ship.
NoKeyWorlds ==
  { [w EXCEPT !.apiKey = FALSE]
    : w \in { WorldOf(TRUE, "main", OneModified, FALSE, FALSE, 0, 0, 0),
              WorldOf(TRUE, "feat", OneModified, FALSE, FALSE, 0, 0, 0),
              WorldOf(TRUE, "feat", Clean, TRUE, FALSE, 0, MaxAhead, 0) } }
Worlds == FileWorlds \cup RemoteWorlds \cup NoGhWorlds \cup NoKeyWorlds

NoInput == [state |-> Null, event |-> Null]
NotApplied == Transition(Null, << >>)

Init ==
  /\ argv \in CommandLines
  /\ mode = parseArgs(argv)
  /\ mode \in Modes
  /\ world \in Worlds
  /\ mode.kind = "auto" => world.apiKey
  /\ state = [kind |-> "preflight"]
  /\ effects = <<[kind |-> "check_tools"]>>
  /\ next = 1
  /\ event = Null
  /\ pc = "loop"
  /\ exitCode = -1
  /\ emitted = <<[kind |-> "check_tools"]>>
  /\ executed = << >>
  /\ events = << >>
  /\ threw = FALSE
  /\ preStaged = world.staged
  /\ visited = <<"preflight">>
  /\ tIn = NoInput
  /\ tOut = NotApplied

\* The history of state kinds after entering kind: it starts again at preflight;
\* editing_commit, which only the interactive commit prompt leads to, is not
\* kept.
Visit(seen, kind) ==
  IF kind = "preflight" THEN <<"preflight">>
  ELSE IF kind = "editing_commit" THEN seen
  ELSE Append(seen, kind)

\* One pass of the for-loop body: execute the next effect of the list; keep a
\* non-null result as the event; an exception makes the state error and ends
\* the loop.
ExecuteEffect ==
  /\ pc = "loop"
  /\ next <= Len(effects)
  /\ \E o \in execute(effects[next], world) :
       /\ world' = o.world
       /\ executed' = executed \o HistAll(<<effects[next]>>)
       /\ IF o.result.kind = "throw"
          THEN /\ state' = [kind |-> "error", message |-> o.result.message]
               /\ threw' = TRUE
               /\ pc' = "render"
               /\ visited' = Append(visited, "error")
               /\ UNCHANGED <<event, next>>
          ELSE /\ event' = IF o.result.kind # "null" THEN o.result ELSE event
               /\ next' = next + 1
               /\ UNCHANGED <<state, threw, pc, visited>>
  /\ UNCHANGED <<argv, mode, effects, exitCode, emitted, events, preStaged, tIn, tOut>>

\* The rest of the while-loop body, after the effect list: no event is a stall;
\* otherwise transition, and the loop ends when the new state is terminal.
Step ==
  /\ pc = "loop"
  /\ next > Len(effects)
  /\ IF event.kind = "null"
     THEN /\ state' = [kind |-> "error",
                       message |-> <<"No event produced - state machine stalled.">>]
          /\ pc' = "render"
          /\ visited' = Append(visited, "error")
          /\ UNCHANGED <<effects, next, event, emitted, events>>
     ELSE LET n == transition(state, event) IN
          /\ state' = n.state
          /\ effects' = n.effects
          /\ next' = 1
          /\ event' = Null
          /\ emitted' = emitted \o HistAll(n.effects)
          /\ events' = IF event.kind \in RecordedEvents
                        THEN Append(events, HistEvent(event, Len(emitted)))
                        ELSE events
          /\ visited' = Visit(visited, n.state.kind)
          /\ pc' = IF isTerminal(n.state) THEN "render" ELSE "loop"
  /\ UNCHANGED <<argv, mode, world, exitCode, executed, threw, preStaged, tIn, tOut>>

\* Rendering that fails the process for error only.
Render_mut ==
  /\ pc = "render"
  /\ exitCode' = IF state.kind = "error" THEN 1 ELSE 0
  /\ pc' = "exited"
  /\ UNCHANGED <<argv, mode, world, state, effects, next, event, emitted, executed,
                 events, threw, preStaged, visited, tIn, tOut>>

\* Terminal rendering: the summary line and the exit status.
Render ==
  /\ pc = "render"
  /\ exitCode' = IF state.kind = "error" \/ state.kind = "merge_conflict" THEN 1 ELSE 0
  /\ pc' = "exited"
  /\ UNCHANGED <<argv, mode, world, state, effects, next, event, emitted, executed,
                 events, threw, preStaged, visited, tIn, tOut>>

Next == ExecuteEffect \/ Step \/ Render

Spec == Init /\ [][Next]_vars

\* The run under its scheduling: the process runs until it exits; every await
\* of the loop returns.
SpecL == Spec /\ WF_vars(Next)

\* ------------------------------------------- transition as a pure function
\* Every GitContext value over the model's branches and counts.
GitsFull ==
  [currentBranch : Branches, onMain : BOOLEAN, hasStaged : BOOLEAN,
   hasUnstaged : BOOLEAN, hasUntracked : BOOLEAN, hasChanges : BOOLEAN,
   hasUpstream : BOOLEAN, unpushedCount : 0..MaxAhead, unmergedCount : 0..MaxAhead,
   untrackedRaw : {<< >>}]

\* A few GitContext values for the states past the routing: trunk and feature
\* branch with changes, feature branch with commits to push, to merge.
GitsSmall ==
  { g \in GitsFull :
      /\ g.onMain = (g.currentBranch = "main")
      /\ g.currentBranch # "master"
      /\ ~g.hasStaged /\ ~g.hasUntracked /\ g.hasUnstaged = g.hasChanges
      /\ g.hasUpstream = (~g.hasChanges /\ g.unpushedCount = 0 /\ ~g.onMain)
      /\ g.unmergedCount = (IF g.hasChanges \/ g.onMain THEN 0 ELSE MaxAhead)
      /\ g.unpushedCount \in {0, g.unmergedCount}
      /\ g.hasChanges \/ ~g.onMain }

PureBranchNames == {"feat", "feat-x"}
PureUrls == {PrUrl("feat"), << >>}
PureFiles == {<< >>, <<[path |-> 1, status |-> "modified"]>>}
PureGroups == [files : {{1}, Files}, commitMessage : CommitMessages]
PurePlans ==
  UNION { [groups : [1..n -> PureGroups], branchName : SuggestedBranches,
           prTitle : {PrTitle}, prBody : {PrBody}] : n \in 0..MaxGroups }
OnePlan == { pl \in PurePlans : Len(pl.groups) = 1 /\ pl.groups[1].files = Files }

\* The State values of one kind (src/states.ts), over gits and plans.
StatesOf(kind, gits, plans) ==
  CASE kind = "preflight" -> {[kind |-> kind]}
    [] kind \in {"fast_path_logging", "fast_path_checking_pr", "collecting_files",
                 "getting_diff", "checking_remote", "pulling"} ->
         [kind : {kind}, git : gits]
    [] kind = "fast_path_pushing" -> [kind : {kind}, git : gits, commitLog : {MaxAhead}]
    [] kind \in {"fast_path_generating_pr", "generating_details"} ->
         [kind : {kind}, git : gits, diff : {{}, {1}}]
    [] kind \in {"fast_path_confirming_pr", "fast_path_creating_pr"} ->
         [kind : {kind}, git : gits, prDetails : PrDetailsSet]
    [] kind \in {"fast_path_confirming_merge", "fast_path_merging"} ->
         [kind : {kind}, git : gits, prUrl : PureUrls]
    [] kind = "picking_files" -> [kind : {kind}, git : gits, files : PureFiles]
    [] kind = "staging_files" -> [kind : {kind}, git : gits, selectedFiles : {<<1>>}]
    [] kind = "confirming_branch" -> [kind : {kind}, git : gits, details : CommitDetailsSet]
    [] kind \in {"confirming_commit", "editing_commit", "post_commit_checking_pr",
                 "checking_pr", "confirming_pr", "creating_pr"} ->
         [kind : {kind}, git : gits, details : CommitDetailsSet,
          branchName : PureBranchNames]
    [] kind = "post_commit" ->
         [kind : {kind}, git : gits, details : CommitDetailsSet,
          branchName : PureBranchNames]
         \cup [kind : {kind}, git : gits, details : CommitDetailsSet,
               branchName : PureBranchNames, prUrl : {PrUrl("feat")}]
    [] kind = "committing" ->
         [kind : {kind}, git : gits, details : CommitDetailsSet,
          branchName : PureBranchNames, commitMessage : EditedMessages]
    [] kind = "pushing" ->
         [kind : {kind}, git : gits, details : CommitDetailsSet,
          branchName : PureBranchNames, postPush : {"check_pr", "done"}]
    [] kind = "stack_committing" ->
         [kind : {kind}, git : gits, plan : plans, currentIndex : 0..MaxGroups]
    [] kind \in {"confirming_merge", "merging"} ->
         [kind : {kind}, git : gits, branchName : PureBranchNames, prUrl : PureUrls]
    [] kind = "confirming_pull" -> [kind : {kind}, git : gits, behind : 1..MaxBehind]
    [] kind \in {"done", "cancelled", "error"} ->
         [kind : {kind}, message : {<<"ok">>}]
    [] kind = "nothing_to_ship" -> {[kind |-> kind]}
    [] kind = "merge_conflict" -> [kind : {kind}, git : gits, message : {<<"conflict">>}]

\* The Event values of one kind (src/states.ts), over gits and plans.
EventsOf(kind, gits, plans) ==
  CASE kind \in {"push_done", "no_pr", "pr_details_failed", "details_failed", "commit_done",
                 "pr_skip", "user_cancelled", "pull_done"} -> {[kind |-> kind]}
    [] kind = "tools_ok" -> [kind : {kind}, git : gits]
    [] kind = "commit_log_ready" -> [kind : {kind}, commitLog : {MaxAhead}]
    [] kind \in {"pr_exists", "pr_created", "merge_done"} -> [kind : {kind}, prUrl : PureUrls]
    [] kind = "diff_ready" -> [kind : {kind}, diff : {{}, {1}}]
    [] kind = "pr_details_generated" -> [kind : {kind}, prDetails : PrDetailsSet]
    [] kind \in {"confirm_pr", "confirm_merge", "confirm_pull"} ->
         [kind : {kind}, accepted : BOOLEAN]
    [] kind = "files_collected" -> [kind : {kind}, files : PureFiles]
    [] kind = "files_picked" -> [kind : {kind}, selectedFiles : {<<1>>}]
    [] kind = "files_staged" -> [kind : {kind}, shortStat : {1}]
    [] kind = "details_generated" -> [kind : {kind}, details : CommitDetailsSet]
    [] kind = "branch_confirmed" -> [kind : {kind}, branchName : PureBranchNames]
    [] kind = "commit_action" -> [kind : {kind}, action : {"accept", "edit", "cancel"}]
    [] kind = "commit_edited" -> [kind : {kind}, commitMessage : EditedMessages]
    [] kind = "merge_skip" ->
         [kind : {kind}, prUrl : {PrUrl("feat")}, branchName : {"feat"}]
    [] kind = "remote_status" -> [kind : {kind}, behind : 0..MaxBehind]
    [] kind = "pull_conflict" -> [kind : {kind}, message : {<<"CONFLICT in file.ts">>}]
    [] kind = "post_commit_choice" -> [kind : {kind}, choice : PostCommitChoices]
    [] kind = "stack_plan_generated" -> [kind : {kind}, plan : plans]
    [] kind = "stack_commit_done" -> [kind : {kind}, nextIndex : 0..(MaxGroups + 1)]

Pairs(S, E) == [state : S, event : E]
AllStates(gits, plans) == UNION { StatesOf(k, gits, plans) : k \in StateKinds }
AllEvents(gits, plans) == UNION { EventsOf(k, gits, plans) : k \in EventKinds }

\* The (state, event) pairs transition is applied to: every state kind with
\* every event kind; the routing states with every GitContext; the stack states
\* with every plan.
TInputs ==
  Pairs(AllStates(GitsSmall, OnePlan), AllEvents(GitsSmall, OnePlan))
  \cup Pairs(StatesOf("preflight", {}, {}), EventsOf("tools_ok", GitsFull, {}))
  \cup Pairs(StatesOf("checking_remote", GitsFull, {}), EventsOf("remote_status", {}, {}))
  \cup Pairs(StatesOf("confirming_pull", GitsFull, {}), EventsOf("confirm_pull", {}, {}))
  \cup Pairs(StatesOf("picking_files", GitsSmall, {}),
             EventsOf("stack_plan_generated", {}, PurePlans))
  \cup Pairs(StatesOf("stack_committing", GitsSmall, PurePlans),
             EventsOf("stack_commit_done", {}, {}))

InitT ==
  /\ tIn \in TInputs
  /\ tOut = NotApplied
  /\ argv = << >>
  /\ mode = [kind |-> "interactive"]
  /\ world = WorldOf(TRUE, "main", Clean, FALSE, FALSE, 0, 0, 0)
  /\ state = [kind |-> "preflight"]
  /\ effects = << >>
  /\ next = 1
  /\ event = Null
  /\ pc = "pure"
  /\ exitCode = -1
  /\ emitted = << >>
  /\ executed = << >>
  /\ events = << >>
  /\ threw = FALSE
  /\ preStaged = {}
  /\ visited = << >>

\* transition(state, event) applied to the chosen pair.
ApplyTransition ==
  /\ pc = "pure"
  /\ tOut = NotApplied
  /\ tOut' = transition(tIn.state, tIn.event)
  /\ UNCHANGED <<argv, mode, world, state, effects, next, event, pc, exitCode,
                 emitted, executed, events, threw, preStaged, visited, tIn>>

NextT == ApplyTransition

SpecT == InitT /\ [][NextT]_vars

Applied == pc = "pure" /\ tOut # NotApplied

\* --------------------------------------------------- argument parsing alone
\* Every command line of at most MaxArgs words.
Argvs == UNION { [1..n -> ArgWords] : n \in 0..MaxArgs }
Unparsed == [kind |-> "unparsed"]

InitA ==
  /\ argv \in Argvs
  /\ mode = Unparsed
  /\ pc = "args"
  /\ world = WorldOf(TRUE, "main", Clean, FALSE, FALSE, 0, 0, 0)
  /\ state = [kind |-> "preflight"]
  /\ effects = << >>
  /\ next = 1
  /\ event = Null
  /\ exitCode = -1
  /\ emitted = << >>
  /\ executed = << >>
  /\ events = << >>
  /\ threw = FALSE
  /\ preStaged = {}
  /\ visited = << >>
  /\ tIn = NoInput
  /\ tOut = NotApplied

\* const mode = parseArgs(process.argv): the process exits with status 1 on a
\* rejected command line, runs setup and exits with 0 for the setup
\* subcommand, and otherwise goes on to the run loop with the mode.
ParseArgs ==
  /\ pc = "args"
  /\ LET r == parseArgs(argv) IN
       IF r.kind = "exit"
       THEN /\ exitCode' = r.code
            /\ pc' = "exited"
            /\ UNCHANGED mode
       ELSE /\ mode' = r
            /\ exitCode' = IF r.kind = "setup" THEN 0 ELSE exitCode
            /\ pc' = IF r.kind = "setup" THEN "exited" ELSE "loop"
  /\ UNCHANGED <<argv, world, state, effects, next, event, emitted, executed,
                 events, threw, preStaged, visited, tIn, tOut>>

NextA == ParseArgs

SpecA == InitA /\ [][NextA]_vars

\* ================================================================ claims
Kinds(effs) == {effs[i].kind : i \in DOMAIN effs}
Ended == pc = "exited"

\* C1: for every terminal state and every event kind, transition returns the
\* error state with an empty effect list (error followed by any event stays error).
C1_TerminalSink ==
  (Applied /\ isTerminal(tIn.state))
    => (tOut.state.kind = "error" /\ tOut.effects = << >>)

C1_Witness ==
  /\ Applied
  /\ tIn.state.kind = "merge_conflict"
  /\ tIn.event.kind = "push_done"
  /\ tOut.state.kind = "error"

\* C2: every effect a transition returns is executed by the run loop, in list
\* order, before the run ends, the effects that come with a terminal state
\* included (a run that ends by an executor exception aside).
C2_AllEffectsExecuted ==
  (Ended /\ ~threw) => (next > Len(effects) /\ executed = emitted)

\* C3 as claimed: once stage_files has been emitted, every later transition into
\* cancelled has unstage_all in its effect list.
StageFilesAt == {i \in DOMAIN emitted : emitted[i].kind = "stage_files"}
StagedUncommitted ==
  \E i \in StageFilesAt :
    ~\E j \in DOMAIN events : events[j].kind = "commit_done" /\ events[j].after >= i
StagedDuringRun ==
  \/ \E i \in DOMAIN executed : executed[i].kind = "stage_files"
  \/ isStack
C4_StagedRestored ==
  (Ended /\ state.kind = "cancelled" /\ StagedDuringRun) => world.staged = preStaged

\* C5: in every state whose pending effect can prompt the user, the event
\* user_cancelled leads to cancelled, never to error.
PromptingStates ==
  { "picking_files", "confirming_branch", "confirming_commit", "fast_path_confirming_pr",
    "confirming_pr", "fast_path_confirming_merge", "confirming_merge", "pushing",
    "fast_path_pushing" }
EventPending == pc = "loop" /\ next > Len(effects) /\ event.kind # "null"
C5_CancelIsCancelled ==
  (EventPending /\ event.kind = "user_cancelled" /\ state.kind \in PromptingStates)
    => transition(state, event).state.kind = "cancelled"

\* C6: starting from preflight, the invalid-transition error state
\* (Unexpected event ... in state ...) is unreachable in the run loop.
IsInvalidTransitionError(s) ==
  s.kind = "error" /\ Len(s.message) = 5 /\ s.message[1] = "Unexpected event \""
C6_NoInvalidTransition == ~IsInvalidTransitionError(state)

\* C7: with gh missing, check_tools returns an event, no exception escapes the
\* run loop, and the run ends in cancelled.
C7_MissingToolCancels ==
  (Ended /\ ~world.gh) => (~threw /\ state.kind = "cancelled")

\* C8: for a plan with N >= 0 groups accepted in picking_files, exactly N
\* execute_stack_commit effects are emitted, with indices 0..N-1 in order and
\* group = plan.groups[index], before post_commit_checking_pr.
StackEffects == SelectSeq(emitted, LAMBDA e : e.kind = "execute_stack_commit")
InOrderOf(plan) ==
  /\ Len(StackEffects) <= Len(plan.groups)
  /\ \A i \in DOMAIN StackEffects :
       StackEffects[i].index = i - 1 /\ StackEffects[i].group = plan.groups[i]
AcceptedPlans ==
  {events[j].plan : j \in {k \in DOMAIN events : events[k].kind = "stack_plan_generated"}}
C8_OneCommitPerGroup ==
  \A plan \in AcceptedPlans :
    /\ InOrderOf(plan)
    /\ state.kind = "post_commit_checking_pr" => Len(StackEffects) = Len(plan.groups)

\* C9: stack_committing + stack_commit_done with nextIndex = number of groups
\* gives post_commit_checking_pr with the groups' messages joined in group
\* order, the plan's PR title and body, branch plan.branchName when on trunk and
\* the current branch otherwise, onMain false, and the single effect
\* check_existing_pr for that branch.
JoinedInOrder(msg, groups) ==
  /\ Len(msg) = (IF Len(groups) = 0 THEN 0 ELSE 2 * Len(groups) - 1)
  /\ \A i \in DOMAIN groups : msg[2 * i - 1] = groups[i].commitMessage[1]
  /\ \A i \in 1..(Len(groups) - 1) : msg[2 * i] = "\n"
C9_Case ==
  /\ Applied
  /\ tIn.state.kind = "stack_committing"
  /\ tIn.event.kind = "stack_commit_done"
  /\ tIn.event.nextIndex = Len(tIn.state.plan.groups)
C9_StackExhausted ==
  C9_Case =>
    LET plan == tIn.state.plan
        git == tIn.state.git
        branch == IF git.onMain THEN plan.branchName ELSE git.currentBranch
    IN /\ tOut.state.kind = "post_commit_checking_pr"
       /\ JoinedInOrder(tOut.state.details.commitMessage, plan.groups)
       /\ tOut.state.details.prTitle = plan.prTitle
       /\ tOut.state.details.prBody = plan.prBody
       /\ tOut.state.details.branchName = branch
       /\ tOut.state.branchName = branch
       /\ tOut.state.git = [git EXCEPT !.onMain = FALSE]
       /\ tOut.effects = <<[kind |-> "check_existing_pr", branch |-> branch]>>

C9_Witness ==
  /\ C9_Case
  /\ Len(tIn.state.plan.groups) = 2
  /\ tIn.state.plan.groups[1].commitMessage # tIn.state.plan.groups[2].commitMessage
  /\ tIn.state.git.onMain
  /\ tOut.state.kind = "post_commit_checking_pr"

\* C10: in stacked autonomous mode the groups of the executed plan partition the
\* collected change set: every collected file is committed by exactly one
\* execute_stack_commit, and no other file is.
Collected ==
  UNION {events[j].paths : j \in {k \in DOMAIN events : events[k].kind = "files_collected"}}
C10_PlanPartitions ==
  (isStack /\ state.kind = "post_commit_checking_pr") =>
    /\ \A f \in Collected :
         Cardinality({i \in DOMAIN world.commits : f \in world.commits[i]}) = 1
    /\ \A i \in DOMAIN world.commits : world.commits[i] \subseteq Collected

\* C11: preflight + tools_ok with hasChanges = false, unpushedCount = 0 and
\* unmergedCount = 0 gives nothing_to_ship with no effects, whatever the other
\* fields of the GitContext.
C11_Case ==
  /\ Applied
  /\ tIn.state.kind = "preflight"
  /\ tIn.event.kind = "tools_ok"
  /\ ~tIn.event.git.hasChanges
  /\ tIn.event.git.unpushedCount = 0
  /\ tIn.event.git.unmergedCount = 0
C11_NothingToShip ==
  C11_Case => tOut = Transition([kind |-> "nothing_to_ship"], << >>)

C11_Witness ==
  /\ C11_Case
  /\ ~tIn.event.git.onMain
  /\ tIn.event.git.hasUpstream
  /\ tIn.event.git.hasStaged
  /\ tOut.state.kind = "nothing_to_ship"

\* C12: confirming_pull is entered exactly from checking_remote on
\* remote_status with behind > 0; with behind = 0 the result is the one
\* preflight gives for the same GitContext when it makes no pull check
\* (fast_path_logging, collecting_files or nothing_to_ship).
WithoutPullCheck(git) ==
  transition([kind |-> "preflight"],
             [kind |-> "tools_ok", git |-> [git EXCEPT !.hasUpstream = FALSE]])
SameButGit(t, u, git) ==
  /\ t.state.kind = u.state.kind
  /\ [i \in DOMAIN t.effects |-> t.effects[i].kind]
       = [i \in DOMAIN u.effects |-> u.effects[i].kind]
  /\ t.state.kind # "nothing_to_ship" =>
       (t.state.git = git /\ \A i \in DOMAIN t.effects : t.effects[i].git = git)
C12_PullCheck ==
  Applied =>
    /\ tOut.state.kind = "confirming_pull"
         <=> /\ tIn.state.kind = "checking_remote"
             /\ tIn.event.kind = "remote_status"
             /\ tIn.event.behind > 0
    /\ (tIn.state.kind = "checking_remote" /\ tIn.event.kind = "remote_status"
          /\ tIn.event.behind = 0)
         => /\ tOut.state.kind \in {"fast_path_logging", "collecting_files", "nothing_to_ship"}
            /\ SameButGit(tOut, WithoutPullCheck(tIn.state.git), tIn.state.git)

C12_Witness ==
  /\ Applied
  /\ tIn.state.kind = "checking_remote"
  /\ tIn.event.kind = "remote_status"
  /\ tIn.event.behind = 0
  /\ tIn.state.git.hasUpstream
  /\ tOut.state.kind = "fast_path_logging"

\* C13: after post_commit_choice(commit_more), the following commit, PR check and
\* push of the run use the branch name of the commit before it (the branchName
\* held in post_commit), also when the run started on trunk.
CommitMoreAt ==
  {events[k].after : k \in {j \in DOMAIN events :
      events[j].kind = "post_commit_choice" /\ events[j].choice = "commit_more"}}
BranchOf(e) == IF e.kind = "commit_only" THEN e.branchName ELSE e.branch
LastCommitBefore(a) ==
  LET I == {i \in 1..a : emitted[i].kind = "commit_only"}
  IN emitted[CHOOSE i \in I : \A j \in I : j <= i]
C13_SameBranchAfterCommitMore ==
  \A a \in CommitMoreAt :
    \A j \in DOMAIN emitted :
      (j > a /\ emitted[j].kind \in {"commit_only", "check_existing_pr", "push_branch"})
        => BranchOf(emitted[j]) = LastCommitBefore(a).branchName

\* C14: on the full path a push_branch effect is emitted only after a commit
\* has completed since the last preflight: after a commit_done event, or after
\* the stack_commit_done event of the plan's last group.
LastOf(kind, j) ==
  LET I == {i \in 1..(j - 1) : emitted[i].kind = kind}
  IN IF I = {} THEN 0 ELSE CHOOSE i \in I : \A k \in I : k <= i
OnFullPath(j) == LastOf("collect_files", j) > LastOf("check_tools", j)
EventsBetween(kind, c, j) ==
  {k \in DOMAIN events : events[k].kind = kind /\ events[k].after >= c /\ events[k].after < j}
CommitCompletedBefore(j) ==
  LET c == LastOf("collect_files", j) IN
  \/ EventsBetween("commit_done", c, j) # {}
  \/ \E plan \in AcceptedPlans :
       \E k \in EventsBetween("stack_commit_done", c, j) :
         events[k].nextIndex = Len(plan.groups)
C14_PushAfterCommit ==
  \A j \in DOMAIN emitted :
    (emitted[j].kind = "push_branch" /\ OnFullPath(j)) => CommitCompletedBefore(j)

C14_Witness ==
  \E j \in DOMAIN emitted :
    /\ emitted[j].kind = "push_branch"
    /\ OnFullPath(j)
    /\ isStack
    /\ \E plan \in AcceptedPlans : Len(plan.groups) = 2
    /\ CommitCompletedBefore(j)

\* C15: a create_pr or create_full_pr effect for a branch is emitted only when
\* the branch exists remotely: a push_done event answered a push_branch for that
\* branch earlier in the run, or the GitContext has hasUpstream = true and
\* unpushedCount = 0.
PushDoneFor(branch) ==
  \E i \in DOMAIN emitted :
    /\ emitted[i].kind = "push_branch"
    /\ emitted[i].branch = branch
    /\ \E k \in DOMAIN events : events[k].kind = "push_done" /\ events[k].after >= i
CreateEffects ==
  {i \in DOMAIN effects : effects[i].kind \in {"create_pr", "create_full_pr"}}
C15_PrAfterRemoteBranch ==
  \A i \in CreateEffects :
    \/ PushDoneFor(effects[i].branch)
    \/ state.git.hasUpstream /\ state.git.unpushedCount = 0

C15_Witness ==
  /\ CreateEffects # {}
  /\ state.kind = "fast_path_creating_pr"
  /\ ~\E i \in DOMAIN emitted : emitted[i].kind = "push_branch"
  /\ state.git.hasUpstream

\* C16: in autonomous mode a push to main or master runs without a
\* confirmation prompt, and prompt_confirm_merge answers confirm_merge with
\* accepted = true.
C16_AutoProceeds ==
  isAuto =>
    /\ world.trunkPrompts = 0
    /\ event.kind = "confirm_merge" => event.accepted

\* C17: in interactive mode merge_and_cleanup is executed only after a
\* confirm_merge event with accepted = true answered the prompt for the same PR
\* URL, and main or master is pushed only after the user accepted the push
\* confirmation; with a declined or cancelled confirmation nothing is pushed or
\* merged.
Trunks == {"main", "master"}
MergeAccepted(j) ==
  \E i \in 1..(j - 1) :
    /\ emitted[i].kind = "prompt_confirm_merge"
    /\ emitted[i].prUrl = emitted[j].prUrl
    /\ \E k \in DOMAIN events :
         /\ events[k].kind = "confirm_merge"
         /\ events[k].accepted
         /\ events[k].after >= i
         /\ events[k].after < j
         /\ LastOf("prompt_confirm_merge", j) = i
C17_ConfirmedOnly ==
  ~isAuto =>
    /\ \A j \in DOMAIN emitted : emitted[j].kind = "merge_and_cleanup" => MergeAccepted(j)
    /\ world.merged # {} => \E j \in DOMAIN executed : executed[j].kind = "merge_and_cleanup"
    /\ \A b \in Trunks : b \in world.pushed => b \in world.trunkAccepted

C17_Witness ==
  /\ ~isAuto
  /\ world.merged # {}
  /\ "master" \in world.pushed
  /\ \E j \in DOMAIN executed : executed[j].kind = "merge_and_cleanup" /\ MergeAccepted(j)

\* C18: a run started with --local never executes push_branch, create_pr,
\* create_full_pr or merge_and_cleanup, whatever the repository state.
ExecutedKinds == Kinds(executed)
IsGoal(goal) == mode.kind = "auto" /\ mode.goal = goal
C18_LocalStaysLocal ==
  IsGoal("local") =>
    /\ ExecutedKinds \cap {"push_branch", "create_pr", "create_full_pr",
                           "merge_and_cleanup"} = {}
    /\ world.pushed = {}

\* C19: a run started with --push never executes create_pr, create_full_pr or
\* merge_and_cleanup, whatever the repository state.
C19_PushStopsAfterPush ==
  IsGoal("push") =>
    /\ ExecutedKinds \cap {"create_pr", "create_full_pr", "merge_and_cleanup"} = {}
    /\ world.created = {}

\* C20: a run started with --pr on a feature branch with uncommitted changes,
\* where generation and every command succeed and no PR exists yet, executes
\* stage_files, commit_only, push_branch and create_full_pr in that order, each
\* once, and ends in done with the new PR URL in its message.
EventKindsSeen == {events[k].kind : k \in DOMAIN events}
PreflightGits == {events[k].git : k \in {j \in DOMAIN events : events[j].kind = "tools_ok"}}
AllSucceeded ==
  /\ ~threw
  /\ EventKindsSeen \cap {"details_failed", "pull_conflict"} = {}
  /\ \A k \in DOMAIN events : events[k].kind = "pr_created" => events[k].prUrl # << >>
C20_Case ==
  /\ Ended
  /\ mode = [kind |-> "auto", goal |-> "pr", stack |-> FALSE]
  /\ PreflightGits # {}
  /\ \A git \in PreflightGits : git.currentBranch = "feat" /\ git.hasChanges
  /\ "pr_exists" \notin EventKindsSeen
  /\ AllSucceeded
ShipSteps == {"stage_files", "commit_only", "push_branch", "create_full_pr"}
ShipStepsExecuted ==
  LET steps == SelectSeq(executed, LAMBDA e : e.kind \in ShipSteps)
  IN [i \in DOMAIN steps |-> steps[i].kind]
C20_PrRun ==
  C20_Case =>
    /\ ShipStepsExecuted = <<"stage_files", "commit_only", "push_branch", "create_full_pr">>
    /\ state = [kind |-> "done", message |-> <<"PR open: ">> \o PrUrl("feat")]
    /\ "feat" \in world.created

C20_Witness ==
  /\ C20_Case
  /\ state.kind = "done"
  /\ world.created = {"feat"}
  /\ world.commits # << >>

\* C21: when the command of stage_files, commit_only, execute_stack_commit,
\* push_branch, create_pr, create_full_pr or merge_and_cleanup exits non-zero,
\* the run ends in error and no later effect is executed.
FatalKinds ==
  { "stage_files", "commit_only", "execute_stack_commit", "push_branch", "create_pr",
    "create_full_pr", "merge_and_cleanup" }
LastExecutedKind == IF executed = << >> THEN "none" ELSE executed[Len(executed)].kind
CreateFailed ==
  \E k \in DOMAIN events : events[k].kind = "pr_created" /\ events[k].prUrl = << >>
CommandFailedIn(kinds) == threw /\ state.message = <<"Command failed">> /\ LastExecutedKind \in kinds
C21_FailedCommandIsFatal ==
  /\ CommandFailedIn(FatalKinds) => (state.kind = "error" /\ pc \in {"render", "exited"})
  /\ CreateFailed =>
       (state.kind = "error" /\ LastExecutedKind \in {"create_pr", "create_full_pr"})

\* C22: pulling + pull_conflict(m) gives merge_conflict with the message m and
\* no effects; a pull that fails without conflict markers ends the run in
\* error; in both cases no pull_remote is emitted again.
PullFailed == threw /\ LastExecutedKind = "pull_remote"
LastEmittedKind == emitted[Len(emitted)].kind
C22_PullFailure ==
  /\ (EventPending /\ state.kind = "pulling" /\ event.kind = "pull_conflict")
       => transition(state, event)
            = Transition([kind |-> "merge_conflict", git |-> state.git,
                          message |-> event.message], << >>)
  /\ PullFailed => state.kind = "error"
  /\ (PullFailed \/ state.kind = "merge_conflict")
       => (LastEmittedKind = "pull_remote" /\ pc \in {"render", "exited"})

C22_Witness ==
  /\ Ended
  /\ state.kind = "merge_conflict"
  /\ state.message = <<"CONFLICT in file">>
  /\ exitCode = 1

\* C23: when the provider returns no result, autonomous mode returns the
\* failure event without manual input and the run ends in cancelled with
\* unstage_all (full path) or in done with the hint (fast path); interactive
\* mode asks for manual input at most once per generation effect and returns
\* the failure event only when that input is cancelled; no generation effect is
\* emitted twice in a row.
GenerationFailed == EventPending /\ event.kind \in {"details_failed", "pr_details_failed"}
C23_GenerationFailure ==
  /\ world.manualAsks <= 1
  /\ isAuto => world.manualAsks = 0
  /\ (GenerationFailed /\ ~isAuto) => world.manualAsks >= 1
  /\ (GenerationFailed /\ isAuto /\ event.kind = "details_failed")
       => transition(state, event)
            = Transition([kind |-> "cancelled", message |-> <<"Aborted.">>],
                         <<[kind |-> "unstage_all"]>>)
  /\ (GenerationFailed /\ isAuto /\ event.kind = "pr_details_failed")
       => transition(state, event)
            = Transition([kind |-> "done",
                          message |-> <<"Branch pushed. Create PR manually.">>], << >>)
  /\ \A i \in 1..(Len(emitted) - 1) :
       emitted[i].kind \in {"generate_commit_details", "generate_pr_details"}
         => emitted[i + 1].kind # emitted[i].kind

\* C24: every prompt of the executor maps a cancelled prompt to the
\* user_cancelled event, and to no other event.
C24_CancelIsUserCancelled ==
  (EventPending /\ world.promptCancelled) => event.kind = "user_cancelled"

\* C25: transition is total: for every non-terminal state and every event kind
\* the state does not handle it returns the error state with no effects and a
\* message naming the event kind and the state kind.
Handles(kind) ==
  CASE kind = "preflight" -> {"tools_ok"}
    [] kind = "checking_remote" -> {"remote_status"}
    [] kind = "confirming_pull" -> {"confirm_pull"}
    [] kind = "pulling" -> {"pull_done", "pull_conflict"}
    [] kind = "fast_path_logging" -> {"commit_log_ready"}
    [] kind \in {"fast_path_pushing", "pushing"} -> {"push_done"}
    [] kind \in {"fast_path_checking_pr", "post_commit_checking_pr", "checking_pr"} ->
         {"pr_exists", "no_pr"}
    [] kind = "fast_path_generating_pr" ->
         {"diff_ready", "pr_details_generated", "pr_details_failed", "user_cancelled"}
    [] kind = "fast_path_confirming_pr" -> {"confirm_pr"}
    [] kind \in {"fast_path_creating_pr", "creating_pr"} -> {"pr_created"}
    [] kind = "fast_path_confirming_merge" -> {"confirm_merge"}
    [] kind \in {"fast_path_merging", "merging"} -> {"merge_done"}
    [] kind = "collecting_files" -> {"files_collected"}
    [] kind = "picking_files" -> {"files_picked", "user_cancelled", "stack_plan_generated"}
    [] kind = "staging_files" -> {"files_staged"}
    [] kind = "getting_diff" -> {"diff_ready"}
    [] kind = "generating_details" ->
         {"details_generated", "details_failed", "user_cancelled"}
    [] kind = "confirming_branch" -> {"branch_confirmed", "user_cancelled"}
    [] kind = "confirming_commit" -> {"commit_action"}
    [] kind = "editing_commit" -> {"commit_edited"}
    [] kind = "committing" -> {"commit_done"}
    [] kind = "post_commit" -> {"post_commit_choice"}
    [] kind = "confirming_pr" -> {"confirm_pr", "user_cancelled"}
    [] kind = "confirming_merge" -> {"confirm_merge", "user_cancelled"}
    [] kind = "stack_committing" -> {"stack_commit_done"}
    [] OTHER -> {}
C25_Case ==
  /\ Applied
  /\ ~isTerminal(tIn.state)
  /\ tIn.event.kind \notin Handles(tIn.state.kind)
C25_InvalidIsError ==
  /\ Applied => tOut.state.kind \in StateKinds
  /\ C25_Case =>
       /\ tOut.state.kind = "error"
       /\ tOut.effects = << >>
       /\ Len(tOut.state.message) = 5
       /\ tOut.state.message[2] = tIn.event.kind
       /\ tOut.state.message[4] = tIn.state.kind

C25_Witness ==
  /\ C25_Case
  /\ tIn.state.kind = "picking_files"
  /\ tIn.event.kind = "push_done"
  /\ tOut.state.kind = "error"

\* C26: the exit status is non-zero exactly when the run ends in error or
\* merge_conflict, and zero when it ends in done, cancelled or nothing_to_ship.
C26_ExitStatus ==
  Ended =>
    /\ state.kind \in TerminalKinds
    /\ state.kind \in {"error", "merge_conflict"} => exitCode # 0
    /\ state.kind \in {"done", "cancelled", "nothing_to_ship"} => exitCode = 0

C26_Witness ==
  /\ Ended
  /\ state.kind = "merge_conflict"
  /\ exitCode # 0

\* C27: pull_remote is emitted only by confirming_pull on confirm_pull with
\* accepted = true; a declined pull gives what checking_remote gives for
\* behind = 0 with the same GitContext; pulling + pull_done gives preflight with
\* the single effect check_tools, a state that holds no GitContext, and the
\* GitContext of the state after preflight is the one of the tools_ok event.
OnConfirmPull == Applied /\ tIn.state.kind = "confirming_pull" /\ tIn.event.kind = "confirm_pull"
C27_PullRestart ==
  /\ Applied =>
       ("pull_remote" \in Kinds(tOut.effects) <=> (OnConfirmPull /\ tIn.event.accepted))
  /\ (OnConfirmPull /\ tIn.event.accepted) =>
       tOut = Transition([kind |-> "pulling", git |-> tIn.state.git],
                         <<[kind |-> "pull_remote", branch |-> tIn.state.git.currentBranch]>>)
  /\ (OnConfirmPull /\ ~tIn.event.accepted) =>
       tOut = transition([kind |-> "checking_remote", git |-> tIn.state.git],
                         [kind |-> "remote_status", behind |-> 0])
  /\ (Applied /\ tIn.state.kind = "pulling" /\ tIn.event.kind = "pull_done") =>
       tOut = Transition([kind |-> "preflight"], <<[kind |-> "check_tools"]>>)
  /\ (Applied /\ tIn.state.kind = "preflight" /\ tIn.event.kind = "tools_ok"
        /\ "git" \in DOMAIN tOut.state) =>
       tOut.state.git = tIn.event.git

C27_Witness ==
  /\ OnConfirmPull
  /\ ~tIn.event.accepted
  /\ tIn.state.git.hasChanges
  /\ tOut.state.kind = "collecting_files"

\* C28: after committing + commit_done, git.onMain is false in every later
\* state of the run, the states entered again after commit_more included.
CommitDone == \E k \in DOMAIN events : events[k].kind = "commit_done"
C28_OffTrunkAfterCommit ==
  (CommitDone /\ "git" \in DOMAIN state) => ~state.git.onMain

C28_Witness ==
  /\ CommitDone
  /\ CommitMoreAt # {}
  /\ state.kind = "confirming_commit"
  /\ \E i \in DOMAIN emitted : emitted[i].kind = "commit_only" /\ emitted[i].onMain
  /\ ~state.git.onMain

\* C29: preflight + tools_ok with something to ship: not on trunk with an
\* upstream gives checking_remote with check_remote_status for the current
\* branch; otherwise no local changes gives fast_path_logging with
\* show_commit_log and local changes give collecting_files with collect_files.
C29_Case ==
  /\ Applied
  /\ tIn.state.kind = "preflight"
  /\ tIn.event.kind = "tools_ok"
  /\ ~C11_Case
C29_PreflightRouting ==
  C29_Case =>
    LET git == tIn.event.git IN
    IF ~git.onMain /\ git.hasUpstream
    THEN tOut = Transition([kind |-> "checking_remote", git |-> git],
                           <<[kind |-> "check_remote_status", branch |-> git.currentBranch]>>)
    ELSE IF ~git.hasChanges
    THEN tOut = Transition([kind |-> "fast_path_logging", git |-> git],
                           <<[kind |-> "show_commit_log", git |-> git]>>)
    ELSE tOut = Transition([kind |-> "collecting_files", git |-> git],
                           <<[kind |-> "collect_files", git |-> git]>>)

C29_Witness ==
  /\ C29_Case
  /\ ~tIn.event.git.onMain
  /\ ~tIn.event.git.hasUpstream
  /\ ~tIn.event.git.hasChanges
  /\ tIn.event.git.hasStaged
  /\ tOut.state.kind = "fast_path_logging"

\* C30: post_commit + post_commit_choice: create_pr gives pushing with postPush
\* check_pr and push_branch for the state's branchName; push_only gives pushing
\* with postPush done and the same effect; commit_more gives collecting_files
\* with collect_files; done gives done with no effects. pushing + push_done
\* gives checking_pr with check_existing_pr when postPush is check_pr, and done
\* otherwise.
OnPostCommit ==
  Applied /\ tIn.state.kind = "post_commit" /\ tIn.event.kind = "post_commit_choice"
OnPushDone == Applied /\ tIn.state.kind = "pushing" /\ tIn.event.kind = "push_done"
PushingWith(postPush) ==
  /\ tOut.state.kind = "pushing"
  /\ tOut.state.postPush = postPush
  /\ tOut.state.branchName = tIn.state.branchName
  /\ tOut.effects = <<[kind |-> "push_branch", branch |-> tIn.state.branchName]>>
C30_PostCommitHub ==
  /\ (OnPostCommit /\ tIn.event.choice = "create_pr") => PushingWith("check_pr")
  /\ (OnPostCommit /\ tIn.event.choice = "push_only") => PushingWith("done")
  /\ (OnPostCommit /\ tIn.event.choice = "commit_more") =>
       /\ tOut.state.kind = "collecting_files"
       /\ tOut.effects = <<[kind |-> "collect_files", git |-> tIn.state.git]>>
  /\ (OnPostCommit /\ tIn.event.choice = "done") =>
       (tOut.state.kind = "done" /\ tOut.effects = << >>)
  /\ (OnPushDone /\ tIn.state.postPush = "check_pr") =>
       /\ tOut.state.kind = "checking_pr"
       /\ tOut.effects = <<[kind |-> "check_existing_pr", branch |-> tIn.state.branchName]>>
  /\ (OnPushDone /\ tIn.state.postPush = "done") =>
       (tOut.state.kind = "done" /\ tOut.effects = << >>)

C30_Witness ==
  /\ OnPostCommit
  /\ tIn.event.choice = "push_only"
  /\ tOut.state.kind = "pushing"
  /\ tOut.state.postPush = "done"

\* C31: fast_path_logging + commit_log_ready emits push_branch for the current
\* branch and enters fast_path_pushing exactly when unpushedCount > 0; otherwise
\* it enters fast_path_checking_pr with check_existing_pr, and no push_branch is
\* emitted on the fast path of that run.
FastPathKinds ==
  { "fast_path_logging", "fast_path_pushing", "fast_path_checking_pr",
    "fast_path_generating_pr", "fast_path_confirming_pr", "fast_path_creating_pr",
    "fast_path_confirming_merge", "fast_path_merging" }
AfterLogging == state.kind \in FastPathKinds \ {"fast_path_logging"}
PushesEmitted == SelectSeq(emitted, LAMBDA e : e.kind = "push_branch")
NothingToPush(git) == ~git.hasChanges /\ git.unpushedCount = 0
C31_FastPathPush ==
  /\ state.kind = "fast_path_pushing" =>
       /\ state.git.unpushedCount > 0
       /\ effects = <<[kind |-> "push_branch", branch |-> state.git.currentBranch]>>
  /\ AfterLogging =>
       IF state.git.unpushedCount > 0
       THEN PushesEmitted = <<[kind |-> "push_branch", branch |-> state.git.currentBranch]>>
       ELSE PushesEmitted = << >>
  /\ (state.kind = "fast_path_checking_pr" /\ state.git.unpushedCount = 0) =>
       effects = <<[kind |-> "check_existing_pr", branch |-> state.git.currentBranch]>>
  /\ (\E git \in PreflightGits : NothingToPush(git)) => PushesEmitted = << >>

C31_Witness ==
  /\ Ended
  /\ state.kind = "done"
  /\ \E git \in PreflightGits : NothingToPush(git) /\ git.unmergedCount > 0
  /\ "check_existing_pr" \in ExecutedKinds
  /\ PushesEmitted = << >>

\* C32: generating_details + details_generated enters confirming_branch with
\* prompt_branch_name suggesting details.branchName exactly when git.onMain is
\* true, and otherwise confirming_commit with branchName = git.currentBranch;
\* the branchName of branch_confirmed is the one carried by every later
\* commit_only, check_existing_pr, push_branch and create_full_pr of the run.
BranchEffects == {"commit_only", "check_existing_pr", "push_branch", "create_full_pr"}
BranchConfirmedAt == {k \in DOMAIN events : events[k].kind = "branch_confirmed"}
CarriedAfter(k, upto) ==
  \A j \in DOMAIN emitted :
    (j > events[k].after /\ j <= upto /\ emitted[j].kind \in BranchEffects)
      => BranchOf(emitted[j]) = events[k].branchName
DetailsRouting ==
  /\ state.kind = "confirming_branch" =>
       /\ state.git.onMain
       /\ effects = <<[kind |-> "prompt_branch_name",
                       suggestion |-> state.details.branchName]>>
  /\ state.kind = "confirming_commit" =>
       IF state.git.onMain
       THEN \E k \in BranchConfirmedAt : state.branchName = events[k].branchName
       ELSE state.branchName = state.git.currentBranch
C32_ConfirmedBranchCarried ==
  /\ DetailsRouting
  /\ \A k \in BranchConfirmedAt : CarriedAfter(k, Len(emitted))

\* C33: on both paths, confirm_merge with accepted = false in a confirming-merge
\* state yields done with a message that contains the state's PR URL; accepted =
\* true yields the merging state of that path with a merge_and_cleanup effect
\* for the same URL; merge_done then yields done with a message containing
\* 'Shipped!'.
Includes(msg, part) ==
  \E i \in 0..(Len(msg) - Len(part)) : SubSeq(msg, i + 1, i + Len(part)) = part
MergingOf(kind) == IF kind = "confirming_merge" THEN "merging" ELSE "fast_path_merging"
OnConfirmMerge ==
  /\ Applied
  /\ tIn.state.kind \in {"fast_path_confirming_merge", "confirming_merge"}
  /\ tIn.event.kind = "confirm_merge"
OnMergeDone ==
  /\ Applied
  /\ tIn.state.kind \in {"fast_path_merging", "merging"}
  /\ tIn.event.kind = "merge_done"
C33_MergeDecision ==
  /\ (OnConfirmMerge /\ ~tIn.event.accepted) =>
       /\ tOut.state.kind = "done"
       /\ Includes(tOut.state.message, tIn.state.prUrl)
  /\ (OnConfirmMerge /\ tIn.event.accepted) =>
       /\ tOut.state.kind = MergingOf(tIn.state.kind)
       /\ tOut.state.prUrl = tIn.state.prUrl
       /\ Len(tOut.effects) = 1
       /\ tOut.effects[1].kind = "merge_and_cleanup"
       /\ tOut.effects[1].prUrl = tIn.state.prUrl
  /\ OnMergeDone =>
       /\ tOut.state.kind = "done"
       /\ Includes(tOut.state.message, <<"Shipped! ">>)

C33_Witness ==
  /\ OnConfirmMerge
  /\ tIn.state.kind = "fast_path_confirming_merge"
  /\ ~tIn.event.accepted
  /\ tIn.state.prUrl # << >>
  /\ tOut.state.kind = "done"

\* C34: argument parsing rejects, before the state machine starts, every command
\* line with more than one of --local, --push, --pr and every command line with
\* --stack but neither --push nor --pr; so every autonomous mode that reaches
\* the run loop with stack = true has goal push or pr.
Given(flag) == \E i \in DOMAIN argv : argv[i] = flag
GoalsGiven == {f \in GoalFlags : Given(f)}
MustReject ==
  \/ Cardinality(GoalsGiven) > 1
  \/ Given("--stack") /\ ~Given("--push") /\ ~Given("--pr")
Rejected ==
  /\ pc = "exited"
  /\ exitCode = 1
  /\ mode = Unparsed
  /\ executed = << >>
C34_ArgsValidated ==
  /\ (pc # "args" /\ MustReject) => Rejected
  /\ (pc = "loop" /\ mode.kind = "auto" /\ mode.stack) => mode.goal \in {"push", "pr"}
  /\ pc = "loop" => mode \in Modes

C34_Witness ==
  /\ Rejected
  /\ GoalsGiven = {}
  /\ Given("--stack")

\* C35: every effect list that comes with a non-terminal state is non-empty; its
\* last effect makes the executor return an event and every earlier one returns
\* none; so the run loop's stall error is unreachable and an event is never
\* replaced by the result of a later effect of the same list.
Results(effect) == {o.result.kind : o \in execute(effect, world)}
Stalled == [kind |-> "error", message |-> <<"No event produced - state machine stalled.">>]
AboutToExecute == pc = "loop" /\ next <= Len(effects)
C35_OneEventPerList ==
  /\ (pc = "loop" /\ ~isTerminal(state)) => effects # << >>
  /\ AboutToExecute =>
       /\ event = Null
       /\ IF next < Len(effects)
          THEN Results(effects[next]) \subseteq {"null", "throw"}
          ELSE "null" \notin Results(effects[next])
  /\ state # Stalled

C35_Witness ==
  /\ AboutToExecute
  /\ Len(effects) = 2
  /\ next = 2
  /\ event = Null
  /\ state.kind = "getting_diff"

\* C36 as claimed: in autonomous mode every run reaches a terminal state, the
\* executor never answers commit_more, and between pull restarts no state is
\* entered twice.
Auto == mode.kind = "auto"
Entered(kind) == Cardinality({i \in DOMAIN visited : visited[i] = kind})
NoCommitMore == CommitMoreAt = {}
NoEditing == state.kind # "editing_commit"
C36_Original ==
  /\ Auto ~> Ended
  /\ [](Auto => (NoCommitMore /\ NoEditing /\ \A kind \in StateKinds : Entered(kind) <= 1))

\* C36: in autonomous mode every run reaches a terminal state and exits; the
\* executor never answers commit_more; between pull restarts every state is
\* entered at most once, except stack_committing, entered once per group of the
\* plan, and fast_path_generating_pr, entered for the diff and again for the
\* PR details.
GroupsToCommit ==
  IF AcceptedPlans = {} THEN 0
  ELSE LET plan == CHOOSE pl \in AcceptedPlans : TRUE
       IN IF Len(plan.groups) = 0 THEN 1 ELSE Len(plan.groups)
MayEnter(kind) ==
  CASE kind = "stack_committing" -> GroupsToCommit
    [] kind = "fast_path_generating_pr" -> 2
    [] OTHER -> 1
C36_AutoTerminates ==
  /\ Auto ~> (Ended /\ isTerminal(state))
  /\ [](Auto => /\ NoCommitMore
                /\ NoEditing
                /\ \A kind \in StateKinds : Entered(kind) <= MayEnter(kind))

C36_Witness ==
  /\ Auto
  /\ Ended
  /\ state.kind = "done"
  /\ Entered("stack_committing") = 2
  /\ Entered("collecting_files") = 1

\* C37: git checkout -b runs at most once per run: only the first commit_only of
\* a run that started on trunk, or the execute_stack_commit with index 0 of such
\* a run, carries onMain = true; every later commit_only and every
\* execute_stack_commit with index > 0 carries onMain = false.
StartedOnTrunk == \E k \in DOMAIN events : events[k].kind = "tools_ok" /\ events[k].git.onMain
FirstCommitOnly(i) == \A j \in 1..(i - 1) : emitted[j].kind # "commit_only"
BranchesAtStart == {"main"} \cup {git.currentBranch : git \in PreflightGits}
NewBranches == world.localBranches \ BranchesAtStart
C37_OneNewBranch ==
  /\ \A i \in DOMAIN emitted :
       /\ emitted[i].kind = "commit_only" =>
            (emitted[i].onMain <=> (StartedOnTrunk /\ FirstCommitOnly(i)))
       /\ emitted[i].kind = "execute_stack_commit" =>
            (emitted[i].onMain <=> (StartedOnTrunk /\ emitted[i].index = 0))
  /\ events # << >> =>
       /\ Cardinality(NewBranches) <= 1
       /\ ~StartedOnTrunk => NewBranches = {}

C37_Witness ==
  /\ Ended
  /\ StartedOnTrunk
  /\ Len(StackEffects) = 2
  /\ StackEffects[1].onMain
  /\ ~StackEffects[2].onMain
  /\ Cardinality(NewBranches) = 1
  /\ Len(world.commits) = 2

\* C38: every transition between two states that hold a GitContext carries it
\* unchanged, except that committing + commit_done and the end of a stack set
\* onMain to false; no other field is updated, and the collect_files effect
\* returned for commit_more carries the GitContext of post_commit as it is.
HoldsGit(s) == "git" \in DOMAIN s
ClearsOnMain ==
  \/ tIn.state.kind = "committing" /\ tIn.event.kind = "commit_done"
  \/ /\ tIn.state.kind = "stack_committing"
     /\ tIn.event.kind = "stack_commit_done"
     /\ tIn.event.nextIndex >= Len(tIn.state.plan.groups)
C38_GitContextFrame ==
  /\ (Applied /\ HoldsGit(tIn.state) /\ HoldsGit(tOut.state)) =>
       /\ tOut.state.git = IF ClearsOnMain THEN [tIn.state.git EXCEPT !.onMain = FALSE]
                           ELSE tIn.state.git
       /\ \A i \in DOMAIN tOut.effects :
            "git" \in DOMAIN tOut.effects[i] => tOut.effects[i].git = tOut.state.git
  /\ (OnPostCommit /\ tIn.event.choice = "commit_more") =>
       /\ tOut.state = [kind |-> "collecting_files", git |-> tIn.state.git]
       /\ tOut.effects = <<[kind |-> "collect_files", git |-> tIn.state.git]>>

C38_Witness ==
  /\ OnPostCommit
  /\ tIn.event.choice = "commit_more"
  /\ tIn.state.git.hasChanges
  /\ tIn.state.git.currentBranch = "main"
  /\ tOut.effects[1].git = tIn.state.git

\* C39: nothing_to_ship is entered only directly from preflight: a GitContext
\* held by checking_remote or confirming_pull has hasChanges or unpushedCount > 0
\* or unmergedCount > 0, so the state after the pull check, when the pull is not
\* taken, is fast_path_logging or collecting_files.
PullCheckKinds == {"checking_remote", "confirming_pull"}
SomethingToShip(git) == git.hasChanges \/ git.unpushedCount > 0 \/ git.unmergedCount > 0
EnteredFrom(kinds) == Len(visited) >= 2 /\ visited[Len(visited) - 1] \in kinds
C39_NothingToShipAtPreflight ==
  /\ state.kind \in PullCheckKinds => SomethingToShip(state.git)
  /\ state.kind = "nothing_to_ship" => visited = <<"preflight", "nothing_to_ship">>
  /\ EnteredFrom(PullCheckKinds) =>
       visited[Len(visited)] \in
         {"confirming_pull", "pulling", "fast_path_logging", "collecting_files"}
           \cup (IF threw THEN {"error"} ELSE {})

C39_Witness ==
  /\ Len(visited) >= 3
  /\ visited[2] = "checking_remote"
  /\ visited[3] = "fast_path_logging"
  /\ \E k \in DOMAIN events : events[k].kind = "pull_done"
  /\ ~state.git.hasChanges
  /\ state.git.unpushedCount = 0

==========================================================================
